---------------------------- MODULE Spec2Model ----------------------------
(***************************************************************************)
(* Model of the accident-detection pipeline of src/ai_module:              *)
(*   engine/object_detection.py      AccidentDetector (debounce, clip       *)
(*                                   window, clip encoder)                  *)
(*   engine/multithreading_tracker.py MultiThreadingTracker (ingestor       *)
(*                                   threads, bounded frame queue)          *)
(*   main.py                         track_videos_multithreaded (dispatch   *)
(*                                   loop, safety net, shutdown) and        *)
(*                                   upload_clip_async                      *)
(*                                                                         *)
(* Time is time.time() in whole seconds.  A frame is identified by the     *)
(* sequence number the detector gave it; its pixels are not modelled.      *)
(* Python's None is the empty sequence <<>> for optional records and 0 for *)
(* the optional accident id (both are falsy in the source's tests).        *)
(***************************************************************************)
EXTENDS Integers, Sequences, FiniteSets, TLC

VARIABLES
    now,             \* the wall clock, time.time()
    det,             \* detectors[cam]: the AccidentDetector objects
    events,          \* what the last process_frame call returned
    ready,           \* what the last handle_clip call returned
    last_call,       \* the detector method called last: its arguments, the
                     \* environment it ran in, and a bit that flips at each call
    wc,              \* the last write_clip call: its arguments and result
    uc,              \* the last upload_clip_async call followed on its own:
                     \* its arguments, the environment it ran in, whether the
                     \* clip file is on disk afterwards
    state,           \* accident_states[cam]
    records,         \* the "accidents" table: records[id] is the row with that id
    uploads,         \* the upload_clip_async calls made, in order
    pc,              \* where the script is: "main", "loop", "finally", "done"
                     \* (track_videos_multithreaded has returned), "exited"
                     \* (exit status 0) or "exit_1" (exit status 1)
    active_cameras,  \* cameras that delivered a frame in this session
    frame_count,     \* frames received by the dispatch loop
    src_left,        \* frames each source still delivers to the dispatch loop
    finalized,       \* the handle_clip(final=True) calls of the finally block:
                     \* the camera of each and what it returned
    boot,            \* what the entry point finds: the cameras fetched, the
                     \* sources that open, whether the model file exists
    running,         \* MultiThreadingTracker.running
    frame_queue,     \* MultiThreadingTracker.frame_queue
    maxsize,         \* frame_queue.maxsize: the queue_size the tracker was built with
    ing,             \* the _capture_loop threads: where each is, what it has read
    got,             \* what the last get_frame call returned
    taken,           \* for each camera, the capture number of the last frame of
                     \* it that get_frame returned (0: none yet)
    tpc              \* where the tracker's caller is: "run", "join" or "stopped"

detvars == <<det, events, ready, last_call>>
coordvars == <<state, records, uploads, pc, active_cameras, frame_count, src_left,
               finalized, boot>>
trackvars == <<running, frame_queue, maxsize, ing, got, taken, tpc>>
vars == <<now, det, events, ready, last_call, wc, uc, state, records, uploads, pc,
          active_cameras, frame_count, src_left, finalized, boot, running,
          frame_queue, maxsize, ing, got, taken, tpc>>

----------------------------------------------------------------------------
(* Program constants                                                       *)

GLOBAL_COOLDOWN == 12
CONF_THRESHOLD == 40
TRIGGER_COUNT == 3
CLIP_SECONDS == 5
BUFFER_SECONDS == 20
RECORD_COOLDOWN == 45
STUCK_TIMEOUT == 45

----------------------------------------------------------------------------
(* Bounds and input sets                                                   *)

\* time.time() when the session starts: beyond every cooldown counted from 0
StartTime == RECORD_COOLDOWN + 1
MaxTime == 93
QueueSize == 2
TrackerFrames == 3
HarnessMaxFrames == 10
SourceFrames == 12
ShortSourceFrames == 4
StalledSourceFrames == 3
HarnessMaxTime == 72

Cams == {"cam1", "cam2"}
\* accident_states.items(): the cameras in the order they were validated
CamOrder == <<"cam1", "cam2">>
HarnessCams == {"cam1"}
FpsValues == {1}
\* How many frames each source delivers to the dispatch loop before it ends:
\* one long source beside a source that delivers nothing, or two short ones.
SourceLengths ==
    {[c \in Cams |-> IF c = CamOrder[1] THEN SourceFrames ELSE 0],
     [c \in Cams |-> IF c = CamOrder[1] THEN ShortSourceFrames
                     ELSE StalledSourceFrames]}
\* one clock advance of the dispatch loop: past the detector cooldown, up to
\* the record cooldown, past the record cooldown
TickSteps == {13, 45, 46}
\* one clock advance of the detector harness: around the detector cooldown
HarnessTickSteps == {12, 13}
\* the boxes one inference can return, as confidences in percent: none, one
\* at the threshold, one at and one above it
BoxSets == {{}, {40}, {40, 41}}
\* outcomes of subprocess.run(['ffmpeg', ...], check=True, timeout=30)
FfmpegOutcomes ==
    {"ok", "CalledProcessError", "FileNotFoundError", "TimeoutExpired", "OSError"}
\* the environment of one write_clip call: how ffmpeg ended and whether the
\* VideoWriter left the intermediate file on disk.  ffmpeg cannot succeed
\* without its input file.
EncoderEnvs ==
    {e \in [ffmpeg : FfmpegOutcomes, temp_exists : BOOLEAN] :
        e.ffmpeg = "ok" => e.temp_exists}
\* one environment for each way write_clip can end (final artifact, renamed
\* intermediate artifact, nothing)
ClipEnvs ==
    {e \in EncoderEnvs : e.ffmpeg \in {"ok", "CalledProcessError"}}
DefaultEnv == [ffmpeg |-> "ok", temp_exists |-> TRUE]

----------------------------------------------------------------------------
(* Helpers                                                                 *)

None == <<>>
Some(x) == <<x>>

RECURSIVE SelectFrom_again(_, _, _)
\* the loop of handle_clip without the test "fid > clip['last']"
SelectFrom_again(buffer, clip, i) ==
    IF i > Len(buffer) THEN clip
    ELSE LET fid == buffer[i]
         IN  IF clip.start <= fid /\ fid <= clip.end
             THEN SelectFrom_again(buffer,
                             [clip EXCEPT !.frames = Append(@, fid), !.last = fid],
                             i + 1)
             ELSE SelectFrom_again(buffer, clip, i + 1)

RECURSIVE SelectFrom(_, _, _)
\* the loop "for frame, fid in self.frame_buffer" of handle_clip: clip is the
\* window so far, i the next index of the buffer to visit
SelectFrom(buffer, clip, i) ==
    IF i > Len(buffer) THEN clip
    ELSE LET fid == buffer[i]
         IN  IF clip.start <= fid /\ fid <= clip.end /\ fid > clip.last
             THEN SelectFrom(buffer,
                             [clip EXCEPT !.frames = Append(@, fid), !.last = fid],
                             i + 1)
             ELSE SelectFrom(buffer, clip, i + 1)

\* a buffer of n entries that refuses the new entry when it is full
DequeAppend_drop_new(q, x, n) ==
    IF Len(q) >= n THEN q ELSE Append(q, x)

\* deque(maxlen=n).append(x)
DequeAppend(q, x, n) ==
    IF Len(q) >= n THEN Append(SubSeq(q, 2, Len(q)), x) ELSE Append(q, x)

----------------------------------------------------------------------------
(* AccidentDetector                                                        *)

AccidentDetector(fps) ==
    [fps |-> fps,
     frame_id |-> 0,
     frame_buffer |-> <<>>,
     pending |-> <<>>,
     global_last |-> 0,
     active_clip |-> None]

\* start_clip anchored at the sequence number before the trigger frame
start_clip_before(d) ==
    [start |-> (d.frame_id - 1) - d.fps * CLIP_SECONDS,
     end |-> (d.frame_id - 1) + d.fps * CLIP_SECONDS,
     frames |-> <<>>,
     last |-> 0]

\* start_clip that marks the frames up to the one before the trigger as
\* collected already
start_clip_last(d) ==
    [start |-> d.frame_id - d.fps * CLIP_SECONDS,
     end |-> d.frame_id + d.fps * CLIP_SECONDS,
     frames |-> <<>>,
     last |-> d.frame_id - 1]

start_clip(d) ==
    [start |-> d.frame_id - d.fps * CLIP_SECONDS,
     end |-> d.frame_id + d.fps * CLIP_SECONDS,
     frames |-> <<>>,
     last |-> 0]

\* process_frame keeping the boxes with "conf >= 0.4"
process_frame_ge(d, boxes, t) ==
    LET d1 == [d EXCEPT !.frame_id = @ + 1,
                        !.frame_buffer =
                            DequeAppend(@, d.frame_id + 1, d.fps * BUFFER_SECONDS)]
        detections == {b \in boxes : b >= CONF_THRESHOLD}
    IN  IF detections # {} /\ t - d1.global_last > GLOBAL_COOLDOWN
        THEN LET d2 == [d1 EXCEPT !.pending = Append(@, t)]
             IN  IF Len(d2.pending) >= TRIGGER_COUNT
                 THEN LET d3 == [d2 EXCEPT !.global_last = t, !.pending = <<>>]
                      IN  [det |-> [d3 EXCEPT !.active_clip = Some(start_clip(d3))],
                           events |-> <<[type |-> "ACCIDENT", time |-> t]>>]
                 ELSE [det |-> d2, events |-> <<>>]
        ELSE [det |-> d1, events |-> <<>>]

\* process_frame whose trigger leaves the pending entries in place
process_frame_keep(d, boxes, t) ==
    LET d1 == [d EXCEPT !.frame_id = @ + 1,
                        !.frame_buffer =
                            DequeAppend(@, d.frame_id + 1, d.fps * BUFFER_SECONDS)]
        detections == {b \in boxes : b > CONF_THRESHOLD}
    IN  IF detections # {} /\ t - d1.global_last > GLOBAL_COOLDOWN
        THEN LET d2 == [d1 EXCEPT !.pending = Append(@, t)]
             IN  IF Len(d2.pending) >= TRIGGER_COUNT
                 THEN LET d3 == [d2 EXCEPT !.global_last = t]
                      IN  [det |-> [d3 EXCEPT !.active_clip = Some(start_clip(d3))],
                           events |-> <<[type |-> "ACCIDENT", time |-> t]>>]
                 ELSE [det |-> d2, events |-> <<>>]
        ELSE [det |-> d1, events |-> <<>>]

\* process_frame in which a frame without detections empties pending
process_frame_reset(d, boxes, t) ==
    LET d1 == [d EXCEPT !.frame_id = @ + 1,
                        !.frame_buffer =
                            DequeAppend(@, d.frame_id + 1, d.fps * BUFFER_SECONDS)]
        detections == {b \in boxes : b > CONF_THRESHOLD}
    IN  IF detections # {} /\ t - d1.global_last > GLOBAL_COOLDOWN
        THEN LET d2 == [d1 EXCEPT !.pending = Append(@, t)]
             IN  IF Len(d2.pending) >= TRIGGER_COUNT
                 THEN LET d3 == [d2 EXCEPT !.global_last = t, !.pending = <<>>]
                      IN  [det |-> [d3 EXCEPT !.active_clip = Some(start_clip(d3))],
                           events |-> <<[type |-> "ACCIDENT", time |-> t]>>]
                 ELSE [det |-> d2, events |-> <<>>]
        ELSE [det |-> [d1 EXCEPT !.pending = IF detections = {} THEN <<>> ELSE @],
              events |-> <<>>]

\* boxes: the confidences the model returned for this frame; t: time.time()
\* Returns the detector after the call and the events list.
process_frame(d, boxes, t) ==
    LET d1 == [d EXCEPT !.frame_id = @ + 1,
                        !.frame_buffer =
                            DequeAppend(@, d.frame_id + 1, d.fps * BUFFER_SECONDS)]
        detections == {b \in boxes : b > CONF_THRESHOLD}
    IN  IF detections # {} /\ t - d1.global_last > GLOBAL_COOLDOWN
        THEN LET d2 == [d1 EXCEPT !.pending = Append(@, t)]
             IN  IF Len(d2.pending) >= TRIGGER_COUNT
                 THEN LET d3 == [d2 EXCEPT !.global_last = t, !.pending = <<>>]
                      IN  [det |-> [d3 EXCEPT !.active_clip = Some(start_clip(d3))],
                           events |-> <<[type |-> "ACCIDENT", time |-> t]>>]
                 ELSE [det |-> d2, events |-> <<>>]
        ELSE [det |-> d1, events |-> <<>>]

\* f"events/ACCIDENT_{int(time.time())}.mp4", or the same with ".avi"
ClipPath(t, ext) == [text |-> "events/ACCIDENT_t", t |-> t, ext |-> ext]

\* write_clip whose handler for a missing ffmpeg gives up
write_clip_no_fallback(clip, t, env) ==
    IF clip.frames = <<>> THEN None
    ELSE CASE env.ffmpeg = "ok" ->
                 Some(ClipPath(t, "mp4"))
           [] env.ffmpeg = "CalledProcessError" ->
                 IF env.temp_exists THEN Some(ClipPath(t, "avi")) ELSE None
           [] env.ffmpeg = "FileNotFoundError" -> None
           [] OTHER ->
                 IF env.temp_exists THEN Some(ClipPath(t, "avi")) ELSE None

\* Returns the path of the artifact, or None.  t is int(time.time()); env
\* tells how subprocess.run ended and whether temp_name exists afterwards.
write_clip(clip, t, env) ==
    IF clip.frames = <<>> THEN None
    ELSE CASE env.ffmpeg = "ok" ->
                 Some(ClipPath(t, "mp4"))
           [] env.ffmpeg = "CalledProcessError" ->
                 IF env.temp_exists THEN Some(ClipPath(t, "avi")) ELSE None
           [] env.ffmpeg = "FileNotFoundError" ->
                 IF env.temp_exists THEN Some(ClipPath(t, "avi")) ELSE None
           [] OTHER ->
                 IF env.temp_exists THEN Some(ClipPath(t, "avi")) ELSE None

\* handle_clip finalizing with "self.frame_id >= clip['end']"
handle_clip_ge(d, final, t, env) ==
    IF d.active_clip = None
    THEN [det |-> d, ready |-> <<>>, writes |-> 0]
    ELSE LET clip == SelectFrom(d.frame_buffer, d.active_clip[1], 1)
         IN  IF final \/ d.frame_id >= clip.end
             THEN LET path == write_clip(clip, t, env)
                  IN  [det |-> [d EXCEPT !.active_clip = None],
                       ready |-> IF path # None
                                 THEN <<[type |-> "ACCIDENT", clip_path |-> path[1]]>>
                                 ELSE <<>>,
                       writes |-> 1]
             ELSE [det |-> [d EXCEPT !.active_clip = Some(clip)], ready |-> <<>>,
                   writes |-> 0]

\* handle_clip that, called with final=True while no window is open, writes
\* the whole frame buffer as a clip
handle_clip_flush(d, final, t, env) ==
    IF d.active_clip = None
    THEN IF final
         THEN LET path == write_clip([start |-> 0, end |-> d.frame_id,
                                      frames |-> d.frame_buffer, last |-> 0], t, env)
              IN  [det |-> d,
                   ready |-> IF path # None
                             THEN <<[type |-> "ACCIDENT", clip_path |-> path[1]]>>
                             ELSE <<>>,
                   writes |-> 1]
         ELSE [det |-> d, ready |-> <<>>, writes |-> 0]
    ELSE LET clip == SelectFrom(d.frame_buffer, d.active_clip[1], 1)
         IN  IF final \/ d.frame_id > clip.end
             THEN LET path == write_clip(clip, t, env)
                  IN  [det |-> [d EXCEPT !.active_clip = None],
                       ready |-> IF path # None
                                 THEN <<[type |-> "ACCIDENT", clip_path |-> path[1]]>>
                                 ELSE <<>>,
                       writes |-> 1]
             ELSE [det |-> [d EXCEPT !.active_clip = Some(clip)], ready |-> <<>>,
                   writes |-> 0]

\* Returns the detector after the call, the ready list and the number of
\* write_clip calls made.
handle_clip(d, final, t, env) ==
    IF d.active_clip = None
    THEN [det |-> d, ready |-> <<>>, writes |-> 0]
    ELSE LET clip == SelectFrom(d.frame_buffer, d.active_clip[1], 1)
         IN  IF final \/ d.frame_id > clip.end
             THEN LET path == write_clip(clip, t, env)
                  IN  [det |-> [d EXCEPT !.active_clip = None],
                       ready |-> IF path # None
                                 THEN <<[type |-> "ACCIDENT", clip_path |-> path[1]]>>
                                 ELSE <<>>,
                       writes |-> 1]
             ELSE [det |-> [d EXCEPT !.active_clip = Some(clip)], ready |-> <<>>,
                   writes |-> 0]

----------------------------------------------------------------------------
(* The clock                                                               *)

Tick ==
    /\ pc = "loop"
    /\ \E s \in TickSteps :
          /\ now + s <= MaxTime
          /\ now' = now + s
    /\ UNCHANGED <<detvars, wc, uc, coordvars, trackvars>>

NoCall == [op |-> "none", cam |-> "none", final |-> FALSE, boxes |-> {},
           env |-> DefaultEnv, writes |-> 0, seq |-> 0]
NoWriteClip == [frames |-> <<>>, env |-> DefaultEnv,
                path |-> None, called |-> FALSE]
NoUploadCall == [accident_id |-> 0, exists |-> FALSE,
                 env |-> [upload |-> "ok", remove_ok |-> TRUE],
                 on_disk |-> FALSE, raised |-> FALSE, called |-> FALSE]

----------------------------------------------------------------------------
(* engine/multithreading_tracker.py: MultiThreadingTracker                 *)

\* after __init__(queue_size) and start_cap_thread(video_paths): every source
\* opened, every thread about to test "while self.running"
InitTracker ==
    /\ running = TRUE
    /\ frame_queue = <<>>
    /\ maxsize = QueueSize
    /\ ing = [c \in Cams |-> [pc |-> "read", read |-> 0]]
    /\ got = [ret |-> FALSE, cam_id |-> "none", frame |-> 0]
    /\ taken = [c \in Cams |-> 0]
    /\ tpc = "run"

\* _capture_loop from "while self.running" to the test of frame_queue.full():
\* the thread ends when the flag is cleared or the read fails (the source has
\* delivered its TrackerFrames frames, or the stream breaks); it goes on to
\* put() when the queue was not full, and drops the frame when it was.
capture_read(c) ==
    \E ret \in BOOLEAN :
        /\ ing[c].pc = "read"
        /\ IF ~running \/ ~ret \/ ing[c].read >= TrackerFrames
           THEN ing' = [ing EXCEPT ![c].pc = "released"]
           ELSE ing' = [ing EXCEPT ![c].read = @ + 1,
                                   ![c].pc = IF Len(frame_queue) < maxsize
                                             THEN "put" ELSE "read"]
        /\ UNCHANGED <<running, frame_queue, maxsize, got, taken, tpc>>

\* self.frame_queue.put(...): Queue.put blocks while the queue is full
capture_put(c) ==
    /\ ing[c].pc = "put"
    /\ Len(frame_queue) < maxsize
    /\ frame_queue' = Append(frame_queue, [cam_id |-> c, frame |-> ing[c].read])
    /\ ing' = [ing EXCEPT ![c].pc = "read"]
    /\ UNCHANGED <<running, maxsize, got, taken, tpc>>

\* get_frame taking the newest frame of the queue
get_frame_lifo ==
    /\ tpc \in {"run", "stopped"}
    /\ IF running /\ frame_queue # <<>>
       THEN LET item == frame_queue[Len(frame_queue)]
            IN  /\ got' = [ret |-> TRUE, cam_id |-> item.cam_id, frame |-> item.frame]
                /\ taken' = [taken EXCEPT ![item.cam_id] = item.frame]
                /\ frame_queue' = SubSeq(frame_queue, 1, Len(frame_queue) - 1)
       ELSE /\ got' = [ret |-> FALSE, cam_id |-> "none", frame |-> 0]
            /\ UNCHANGED <<frame_queue, taken>>
    /\ UNCHANGED <<running, maxsize, ing, tpc>>

\* get_frame(), with the timeout of frame_queue.get(timeout=1) when empty
get_frame ==
    /\ tpc \in {"run", "stopped"}
    /\ IF running /\ frame_queue # <<>>
       THEN LET item == Head(frame_queue)
            IN  /\ got' = [ret |-> TRUE, cam_id |-> item.cam_id, frame |-> item.frame]
                /\ taken' = [taken EXCEPT ![item.cam_id] = item.frame]
                /\ frame_queue' = Tail(frame_queue)
       ELSE /\ got' = [ret |-> FALSE, cam_id |-> "none", frame |-> 0]
            /\ UNCHANGED <<frame_queue, taken>>
    /\ UNCHANGED <<running, maxsize, ing, tpc>>

\* stop(): self.running = False
stop_flag ==
    /\ tpc = "run"
    /\ running' = FALSE
    /\ tpc' = "join"
    /\ UNCHANGED <<frame_queue, maxsize, ing, got, taken>>

\* stop(): each t.join(timeout=1) has returned, with the thread ended or
\* not; then "while not self.frame_queue.empty(): self.frame_queue.get()"
stop_drain ==
    /\ tpc = "join"
    /\ frame_queue' = <<>>
    /\ tpc' = "stopped"
    /\ UNCHANGED <<running, maxsize, ing, got, taken>>

NextTracker ==
    \/ \E c \in Cams : capture_read(c) /\ UNCHANGED <<now, detvars, wc, uc, coordvars>>
    \/ \E c \in Cams : capture_put(c) /\ UNCHANGED <<now, detvars, wc, uc, coordvars>>
    \/ get_frame /\ UNCHANGED <<now, detvars, wc, uc, coordvars>>
    \/ stop_flag /\ UNCHANGED <<now, detvars, wc, uc, coordvars>>
    \/ stop_drain /\ UNCHANGED <<now, detvars, wc, uc, coordvars>>

----------------------------------------------------------------------------
(* SpecEncoder: write_clip called on any frame list in any environment     *)

MaxClipFrames == 3
ClipFrameIds == 1..(MaxClipFrames + 1)

RECURSIVE Increasing(_)
Increasing(q) ==
    Len(q) < 2 \/ (q[1] < q[2] /\ Increasing(Tail(q)))

\* frame lists a window can hold: increasing sequence numbers
FrameLists ==
    {q \in UNION {[1..n -> ClipFrameIds] : n \in 0..MaxClipFrames} : Increasing(q)}

CallWriteClip ==
    \E frames \in FrameLists, env \in EncoderEnvs, t \in {StartTime, StartTime + 1} :
        /\ wc' = [frames |-> frames, env |-> env,
                  path |-> write_clip([start |-> 0, end |-> MaxClipFrames,
                                       frames |-> frames, last |-> 0], t, env),
                  called |-> TRUE]
        /\ UNCHANGED <<now, detvars, uc, coordvars, trackvars>>

----------------------------------------------------------------------------
(* main.py: the record store helpers and the upload                        *)

\* Outcomes of supabase.storage...upload as upload_clip_async sees them:
\* the clip file is missing, the upload succeeds, the upload raises.
UploadOutcomes == {"no_file", "ok", "fail"}

\* create_accident_event: the id of the inserted row (0 when the insert
\* failed) and the table after it
create_accident_event(recs, camera_id, ok) ==
    IF ok
    THEN [id |-> Len(recs) + 1,
          records |-> Append(recs, [camera_id |-> camera_id,
                                    status |-> "DETECTED",
                                    clip_path |-> None,
                                    video_url |-> None])]
    ELSE [id |-> 0, records |-> recs]

\* update_accident(accident_id, {"status": status, "clip_path": clip_path})
update_accident(recs, accident_id, status, clip_path) ==
    [recs EXCEPT ![accident_id] = [@ EXCEPT !.status = status,
                                            !.clip_path = clip_path]]

\* upload_clip_async(clip_path, accident_id) run to its end: the table after it
upload_clip_async(recs, clip_path, accident_id, outcome) ==
    CASE outcome = "no_file" -> recs
      [] outcome = "ok" ->
            [recs EXCEPT ![accident_id] =
                [@ EXCEPT !.status = "UPLOADED", !.video_url = Some(clip_path)]]
      [] OTHER -> update_accident(recs, accident_id, "UPLOAD_FAILED", Some(clip_path))

\* the environments of one upload_clip_async call: whether the calls to the
\* storage (upload, get_public_url) return or raise, and whether
\* os.remove(clip_path) succeeds
UploadEnvs == [upload : {"ok", "fail"}, remove_ok : BOOLEAN]

\* upload_clip_async that removes the clip file before it uploads
upload_clip_async_disk_rm(recs, clip_path, accident_id, exists, env) ==
    IF ~exists
    THEN [records |-> upload_clip_async(recs, clip_path, accident_id, "no_file"),
          on_disk |-> FALSE, raised |-> FALSE]
    ELSE IF env.upload = "ok"
         THEN [records |-> upload_clip_async(recs, clip_path, accident_id, "ok"),
               on_disk |-> FALSE, raised |-> FALSE]
         ELSE [records |-> upload_clip_async(recs, clip_path, accident_id, "fail"),
               on_disk |-> FALSE, raised |-> FALSE]

\* upload_clip_async(clip_path, accident_id) with the clip file followed:
\* exists is os.path.exists(clip_path) at the call.  Returns the table, whether
\* the file is on disk afterwards and whether an exception leaves the function
\* (every handler of the function ends without raising).
upload_clip_async_disk(recs, clip_path, accident_id, exists, env) ==
    IF ~exists
    THEN [records |-> upload_clip_async(recs, clip_path, accident_id, "no_file"),
          on_disk |-> FALSE, raised |-> FALSE]
    ELSE IF env.upload = "ok"
         THEN [records |-> upload_clip_async(recs, clip_path, accident_id, "ok"),
               on_disk |-> ~env.remove_ok, raised |-> FALSE]
         ELSE [records |-> upload_clip_async(recs, clip_path, accident_id, "fail"),
               on_disk |-> TRUE, raised |-> FALSE]

----------------------------------------------------------------------------
(* main.py: track_videos_multithreaded                                     *)

AccidentState == [active |-> FALSE, accident_id |-> 0, last_event_time |-> 0]

\* the reset that clears "active" and keeps the accident_id
IdleState_keep_id(st) == [st EXCEPT !.active = FALSE]

IdleState(st) == [st EXCEPT !.active = FALSE, !.accident_id = 0]

\* create_record with the cooldown test "time_since_last >= 45"
create_record_ge(w, c, evs, t, create_ok) ==
    IF /\ ~w.state[c].active
       /\ evs # <<>>
       /\ evs[1].type = "ACCIDENT"
       /\ t - w.state[c].last_event_time >= RECORD_COOLDOWN
    THEN LET id == Len(w.records) + 1
         IN  IF create_ok
             THEN [w EXCEPT !.records = Append(@, [camera_id |-> c,
                                                   status |-> "DETECTED",
                                                   clip_path |-> None,
                                                   video_url |-> None]),
                            !.state[c] = [active |-> TRUE,
                                          accident_id |-> id,
                                          last_event_time |-> t]]
             ELSE w
    ELSE w

\* create_record that stamps last_event_time also when the insert failed
create_record_stamp(w, c, evs, t, create_ok) ==
    IF /\ ~w.state[c].active
       /\ evs # <<>>
       /\ evs[1].type = "ACCIDENT"
       /\ t - w.state[c].last_event_time > RECORD_COOLDOWN
    THEN LET r == create_accident_event(w.records, c, create_ok)
         IN  IF r.id # 0
             THEN [w EXCEPT !.records = r.records,
                            !.state[c] = [active |-> TRUE,
                                          accident_id |-> r.id,
                                          last_event_time |-> t]]
             ELSE [w EXCEPT !.state[c].last_event_time = t]
    ELSE w

\* "1. Create DB row ONCE when accident detected".  w holds the detectors,
\* the states, the table and the uploads during one loop iteration.
create_record(w, c, evs, t, create_ok) ==
    IF /\ ~w.state[c].active
       /\ evs # <<>>
       /\ evs[1].type = "ACCIDENT"
       /\ t - w.state[c].last_event_time > RECORD_COOLDOWN
    THEN LET r == create_accident_event(w.records, c, create_ok)
         IN  IF r.id # 0
             THEN [w EXCEPT !.records = r.records,
                            !.state[c] = [active |-> TRUE,
                                          accident_id |-> r.id,
                                          last_event_time |-> t]]
             ELSE w
    ELSE w

\* dispatch_clip without the update of the record to TRIMMED
dispatch_clip_no_trimmed(w, c, clip_path) ==
    LET id == w.state[c].accident_id
    IN  [w EXCEPT !.uploads = Append(@, [accident_id |-> id,
                                         clip_path |-> clip_path,
                                         status |-> "running"]),
                  !.state[c] = IdleState(@)]

\* dispatch_clip without the reset of the camera's state
dispatch_clip_no_reset(w, c, clip_path) ==
    LET id == w.state[c].accident_id
    IN  [w EXCEPT !.records = update_accident(@, id, "TRIMMED", Some(clip_path)),
                  !.uploads = Append(@, [accident_id |-> id,
                                         clip_path |-> clip_path,
                                         status |-> "running"])]

\* the update to TRIMMED, the upload process started for the clip and the
\* reset of the camera's state
dispatch_clip(w, c, clip_path) ==
    LET id == w.state[c].accident_id
    IN  [w EXCEPT !.records = update_accident(@, id, "TRIMMED", Some(clip_path)),
                  !.uploads = Append(@, [accident_id |-> id,
                                         clip_path |-> clip_path,
                                         status |-> "running"]),
                  !.state[c] = IdleState(@)]

\* clip_ready that hands the clip of an idle camera to the camera's latest
\* record
clip_ready_latest(w, c, rdy) ==
    IF rdy = <<>> THEN w
    ELSE IF w.state[c].active /\ w.state[c].accident_id # 0
         THEN dispatch_clip(w, c, rdy[1].clip_path)
         ELSE LET ids == {i \in 1..Len(w.records) : w.records[i].camera_id = c}
              IN  IF ids = {} THEN w
                  ELSE dispatch_clip(
                          [w EXCEPT !.state[c].accident_id =
                                      CHOOSE i \in ids : \A j \in ids : j <= i],
                          c, rdy[1].clip_path)

\* "2. Check for trimmed clip"
clip_ready(w, c, rdy) ==
    IF w.state[c].active /\ w.state[c].accident_id # 0 /\ rdy # <<>>
    THEN dispatch_clip(w, c, rdy[1].clip_path)
    ELSE w

\* f"No clip generated after {time_since_detection:.0f}s"
NoClipMessage(elapsed) == [text |-> "No clip generated after t s", t |-> elapsed, ext |-> ""]

\* force_finalize whose FAILED branch leaves the camera active
force_finalize_no_reset(w, cc, t, env) ==
    IF /\ w.state[cc].active
       /\ w.state[cc].accident_id # 0
       /\ t - w.state[cc].last_event_time > STUCK_TIMEOUT
    THEN LET r == handle_clip(w.det[cc], TRUE, t, env)
             w1 == [w EXCEPT !.det[cc] = r.det]
         IN  IF r.ready # <<>>
             THEN dispatch_clip(w1, cc, r.ready[1].clip_path)
             ELSE [w1 EXCEPT
                     !.records = update_accident(@, w.state[cc].accident_id,
                                                 "FAILED",
                                                 Some(NoClipMessage(t - w.state[cc].last_event_time)))]
    ELSE w

\* force_finalize that starts an upload of the diagnostic message for the
\* record it marks FAILED
force_finalize_failed_upload(w, cc, t, env) ==
    IF /\ w.state[cc].active
       /\ w.state[cc].accident_id # 0
       /\ t - w.state[cc].last_event_time > STUCK_TIMEOUT
    THEN LET r == handle_clip(w.det[cc], TRUE, t, env)
             w1 == [w EXCEPT !.det[cc] = r.det]
             msg == NoClipMessage(t - w.state[cc].last_event_time)
         IN  IF r.ready # <<>>
             THEN dispatch_clip(w1, cc, r.ready[1].clip_path)
             ELSE [w1 EXCEPT
                     !.records = update_accident(@, w.state[cc].accident_id,
                                                 "FAILED", Some(msg)),
                     !.uploads = Append(@, [accident_id |-> w.state[cc].accident_id,
                                            clip_path |-> msg,
                                            status |-> "running"]),
                     !.state[cc] = IdleState(@)]
    ELSE w

\* one camera of "3. Safety check"
force_finalize(w, cc, t, env) ==
    IF /\ w.state[cc].active
       /\ w.state[cc].accident_id # 0
       /\ t - w.state[cc].last_event_time > STUCK_TIMEOUT
    THEN LET r == handle_clip(w.det[cc], TRUE, t, env)
             w1 == [w EXCEPT !.det[cc] = r.det]
         IN  IF r.ready # <<>>
             THEN dispatch_clip(w1, cc, r.ready[1].clip_path)
             ELSE [w1 EXCEPT
                     !.records = update_accident(@, w.state[cc].accident_id,
                                                 "FAILED",
                                                 Some(NoClipMessage(t - w.state[cc].last_event_time))),
                     !.state[cc] = IdleState(@)]
    ELSE w

RECURSIVE safety_check_first(_, _, _, _)
\* the safety check that stops after the first camera it examined
safety_check_first(w, i, t, envs) ==
    IF i > 1 THEN w
    ELSE safety_check_first(force_finalize(w, CamOrder[i], t, envs[CamOrder[i]]),
                            i + 1, t, envs)

RECURSIVE safety_check(_, _, _, _)
\* "for check_cam, check_state in accident_states.items()", from camera i on
safety_check(w, i, t, envs) ==
    IF i > Len(CamOrder) THEN w
    ELSE safety_check(force_finalize(w, CamOrder[i], t, envs[CamOrder[i]]),
                      i + 1, t, envs)

\* a start in which every camera fetched opens and the model file exists
DefaultBoot == [cameras |-> Cams, opened |-> Cams, model_exists |-> TRUE]

\* the state when the dispatch loop is entered
InitCoordinator ==
    /\ state = [c \in Cams |-> AccidentState]
    /\ records = <<>>
    /\ uploads = <<>>
    /\ pc = "loop"
    /\ active_cameras = {}
    /\ frame_count = 0
    /\ finalized = <<>>
    /\ boot = DefaultBoot

InitDetectors ==
    /\ now = StartTime
    /\ det \in [Cams -> {AccidentDetector(f) : f \in FpsValues}]
    /\ events = <<>>
    /\ ready = <<>>
    /\ last_call = NoCall
    /\ wc = NoWriteClip
    /\ uc = NoUploadCall

Init ==
    /\ InitDetectors
    /\ InitCoordinator
    /\ src_left \in SourceLengths
    /\ InitTracker

\* The environments to tell apart in one iteration: a camera whose detector
\* holds no window makes no write_clip call, so its environment is fixed.
EnvChoices(dets) ==
    {envs \in [Cams -> ClipEnvs] :
        \A c \in Cams : dets[c].active_clip = None => envs[c] = DefaultEnv}
\* an insert is attempted only for an event
CreateOutcomes(evs) == IF evs = <<>> THEN {TRUE} ELSE BOOLEAN
\* an upload is attempted only for a clip
SyncOutcomes(dets, actives) ==
    {o \in [Cams -> UploadOutcomes] :
        \A c \in Cams : (dets[c].active_clip = None \/ c \notin actives) => o[c] = "ok"}

\* One iteration of "while True" in which tracker.get_frame() returned a
\* frame of camera c.  boxes is what the model sees in the frame, create_ok
\* whether an insert into the table succeeds, envs[cam] the environment of
\* the write_clip call made for cam in this iteration.
LoopFrame ==
    \E c \in Cams :
        /\ pc = "loop"
        /\ src_left[c] > 0
        /\ \E boxes \in BoxSets :
              LET p == process_frame(det[c], boxes, now)
                  dets == [det EXCEPT ![c] = p.det]
              IN  \E create_ok \in CreateOutcomes(p.events), envs \in EnvChoices(dets) :
                     LET w0 == [det |-> dets, state |-> state,
                                records |-> records, uploads |-> uploads]
                         w1 == create_record(w0, c, p.events, now, create_ok)
                         h == handle_clip(w1.det[c], FALSE, now, envs[c])
                         w2 == clip_ready([w1 EXCEPT !.det[c] = h.det], c, h.ready)
                         w3 == safety_check(w2, 1, now, envs)
                     IN  /\ det' = w3.det
                         /\ state' = w3.state
                         /\ records' = w3.records
                         /\ uploads' = w3.uploads
                         /\ events' = p.events
                         /\ ready' = h.ready
        /\ src_left' = [src_left EXCEPT ![c] = @ - 1]
        /\ active_cameras' = active_cameras \cup {c}
        /\ frame_count' = frame_count + 1
        /\ UNCHANGED <<now, last_call, wc, uc, pc, finalized, boot, trackvars>>

\* the no-frame branch that ends the session when frames were counted and a
\* second get_frame returns nothing either
LoopNoFrame_quiet ==
    \E again \in BOOLEAN :
        /\ pc = "loop"
        /\ pc' = IF frame_count > 0 /\ ~again THEN "finally" ELSE "loop"
        /\ UNCHANGED <<now, detvars, wc, uc, state, records, uploads, active_cameras,
                       frame_count, src_left, finalized, boot, trackvars>>

\* One iteration in which tracker.get_frame() returned no frame.  The loop
\* is left when frames were counted, no camera is marked active and a second
\* get_frame returns nothing either (again); otherwise it continues.
LoopNoFrame ==
    \E again \in BOOLEAN :
        /\ pc = "loop"
        /\ pc' = IF frame_count > 0 /\ Cardinality(active_cameras) = 0 /\ ~again
                 THEN "finally" ELSE "loop"
        /\ UNCHANGED <<now, detvars, wc, uc, state, records, uploads, active_cameras,
                       frame_count, src_left, finalized, boot, trackvars>>

\* ESC in cv2.waitKey or a KeyboardInterrupt leaves the loop
Interrupt ==
    /\ pc = "loop"
    /\ pc' = "finally"
    /\ UNCHANGED <<now, detvars, wc, uc, state, records, uploads, active_cameras,
                   frame_count, src_left, finalized, boot, trackvars>>

\* the finally block finalizing every detector, whether or not its camera
\* delivered a frame
finalize_camera_every(w, c, actives, t, env, outcome) ==
    LET r == handle_clip(w.det[c], TRUE, t, env)
        w1 == [w EXCEPT !.det[c] = r.det,
                        !.finalized = Append(@, [cam |-> c, ready |-> r.ready])]
        id == w.state[c].accident_id
    IN  IF r.ready # <<>> /\ id # 0
        THEN LET path == r.ready[1].clip_path
                 trimmed == update_accident(w1.records, id, "TRIMMED", Some(path))
             IN  [w1 EXCEPT
                    !.records = upload_clip_async(trimmed, path, id, outcome),
                    !.uploads = Append(@, [accident_id |-> id,
                                           clip_path |-> path,
                                           status |-> outcome])]
        ELSE w1

\* one detector of "Finalize any pending clips"
finalize_camera(w, c, actives, t, env, outcome) ==
    IF c \notin actives THEN w
    ELSE LET r == handle_clip(w.det[c], TRUE, t, env)
             w1 == [w EXCEPT !.det[c] = r.det,
                             !.finalized = Append(@, [cam |-> c, ready |-> r.ready])]
             id == w.state[c].accident_id
         IN  IF r.ready # <<>> /\ id # 0
             THEN LET path == r.ready[1].clip_path
                      trimmed == update_accident(w1.records, id, "TRIMMED", Some(path))
                  IN  [w1 EXCEPT
                         !.records = upload_clip_async(trimmed, path, id, outcome),
                         !.uploads = Append(@, [accident_id |-> id,
                                                clip_path |-> path,
                                                status |-> outcome])]
             ELSE w1

RECURSIVE finalize_all(_, _, _, _, _, _)
\* "for cam_id, detector in detectors.items()", from camera i on
finalize_all(w, i, actives, t, envs, outcomes) ==
    IF i > Len(CamOrder) THEN w
    ELSE finalize_all(finalize_camera(w, CamOrder[i], actives, t,
                                      envs[CamOrder[i]], outcomes[CamOrder[i]]),
                      i + 1, actives, t, envs, outcomes)

\* the finally block: tracker.stop() (the flag cleared, the threads joined,
\* the queue drained), then the pending clips
Finally ==
    \E envs \in EnvChoices(det), outcomes \in SyncOutcomes(det, active_cameras) :
        /\ pc = "finally"
        /\ pc' = "done"
        /\ running' = FALSE
        /\ frame_queue' = <<>>
        /\ tpc' = "stopped"
        /\ LET w0 == [det |-> det, state |-> state, records |-> records,
                      uploads |-> uploads, finalized |-> finalized]
               w1 == finalize_all(w0, 1, active_cameras, now, envs, outcomes)
           IN  /\ det' = w1.det
               /\ state' = w1.state
               /\ records' = w1.records
               /\ uploads' = w1.uploads
               /\ finalized' = w1.finalized
        /\ UNCHANGED <<now, events, ready, last_call, wc, uc, active_cameras,
                       frame_count, src_left, boot, maxsize, ing, got, taken>>

\* a background upload process runs upload_clip_async to its end
UploadEnd ==
    \E i \in 1..Len(uploads), outcome \in UploadOutcomes :
        /\ uploads[i].status = "running"
        /\ records' = upload_clip_async(records, uploads[i].clip_path,
                                        uploads[i].accident_id, outcome)
        /\ uploads' = [uploads EXCEPT ![i].status = outcome]
        /\ UNCHANGED <<now, detvars, wc, uc, state, pc, active_cameras, frame_count,
                       src_left, finalized, boot, trackvars>>

\* track_videos_multithreaded has returned and the interpreter exits: the
\* upload processes were started with daemon=True, so those still running
\* are terminated; the table keeps what they had written.
Exit ==
    /\ pc = "done"
    /\ pc' = "exited"
    /\ uploads' = [i \in 1..Len(uploads) |->
                      IF uploads[i].status = "running"
                      THEN [uploads[i] EXCEPT !.status = "terminated"]
                      ELSE uploads[i]]
    /\ UNCHANGED <<now, detvars, wc, uc, state, records, active_cameras, frame_count,
                   src_left, finalized, boot, trackvars>>

Next ==
    Tick \/ LoopFrame \/ LoopNoFrame \/ Interrupt \/ Finally \/ UploadEnd \/ Exit

Spec == Init /\ [][Next]_vars

----------------------------------------------------------------------------
(* SpecLoop: the session for as long as nobody presses ESC or interrupts it *)

NextLoop == Tick \/ LoopFrame \/ LoopNoFrame \/ UploadEnd

SpecLoop == Init /\ [][NextLoop]_vars

----------------------------------------------------------------------------
(* SpecLong: the uninterrupted session of one camera whose source is long  *)
(* enough for a second window to open and close after the first            *)

LongSourceFrames == 18

InitLong ==
    /\ InitDetectors
    /\ InitCoordinator
    /\ src_left = [c \in Cams |-> IF c = CamOrder[1] THEN LongSourceFrames ELSE 0]
    /\ InitTracker

SpecLong == InitLong /\ [][NextLoop]_vars

----------------------------------------------------------------------------
(* SpecDetector: one AccidentDetector driven method by method              *)

TickDetector ==
    /\ \E s \in HarnessTickSteps :
          /\ now + s <= HarnessMaxTime
          /\ now' = now + s
    /\ UNCHANGED <<detvars, wc, uc, coordvars, trackvars>>

InitDetector ==
    /\ InitDetectors
    /\ InitCoordinator
    /\ src_left = [c \in Cams |-> 0]
    /\ InitTracker

CallProcessFrame ==
    \E c \in HarnessCams, boxes \in BoxSets :
        /\ det[c].frame_id < HarnessMaxFrames
        /\ LET r == process_frame(det[c], boxes, now)
           IN  /\ det' = [det EXCEPT ![c] = r.det]
               /\ events' = r.events
        /\ last_call' = [op |-> "process_frame", cam |-> c, final |-> FALSE,
                         boxes |-> boxes, env |-> DefaultEnv, writes |-> 0,
                         seq |-> 1 - last_call.seq]
        /\ UNCHANGED <<now, ready, wc, uc, coordvars, trackvars>>

CallHandleClip ==
    \E c \in HarnessCams, final \in BOOLEAN, env \in ClipEnvs :
        /\ LET r == handle_clip(det[c], final, now, env)
           IN  /\ det' = [det EXCEPT ![c] = r.det]
               /\ ready' = r.ready
               /\ last_call' = [op |-> "handle_clip", cam |-> c, final |-> final,
                                boxes |-> {}, env |-> env, writes |-> r.writes,
                                seq |-> 1 - last_call.seq]
        /\ UNCHANGED <<now, events, wc, uc, coordvars, trackvars>>

NextDetector == TickDetector \/ CallProcessFrame \/ CallHandleClip

SpecDetector == InitDetector /\ [][NextDetector]_vars

----------------------------------------------------------------------------
(* SpecBuffer: one detector fed more frames than its ring buffer holds     *)

BufferMaxFrames == 24

FeedFrame ==
    \E c \in HarnessCams, boxes \in BoxSets :
        /\ det[c].frame_id < BufferMaxFrames
        /\ LET r == process_frame(det[c], boxes, now)
           IN  /\ det' = [det EXCEPT ![c] = r.det]
               /\ events' = r.events
        /\ last_call' = [op |-> "process_frame", cam |-> c, final |-> FALSE,
                         boxes |-> boxes, env |-> DefaultEnv, writes |-> 0,
                         seq |-> 1 - last_call.seq]
        /\ UNCHANGED <<now, ready, wc, uc, coordvars, trackvars>>

----------------------------------------------------------------------------
(* SpecMain: the entry point, and a session whose sources deliver nothing  *)

\* what fetch_cameras() returns, which of the sources cv2.VideoCapture
\* opens, and os.path.exists(model_path)
BootInputs == [cameras : SUBSET Cams, opened : SUBSET Cams, model_exists : BOOLEAN]

\* validated_cameras of track_videos_multithreaded
validated_cameras(b) == b.cameras \cap b.opened

\* The script from its first line to the dispatch loop.  exit(1) ends it
\* with status 1 (pc "exit_1"); when track_videos_multithreaded returns
\* before its loop, the script runs to its last line (pc "done") and the
\* interpreter exits with status 0 (pc "exited").  The rows that
\* cleanup_stale_detected_entries() touches are those of earlier sessions.
Main ==
    /\ pc = "main"
    /\ pc' = IF boot.cameras = {} THEN "exit_1"
             ELSE IF ~boot.model_exists THEN "exit_1"
             ELSE IF validated_cameras(boot) = {} THEN "done"
             ELSE "loop"
    /\ UNCHANGED <<now, detvars, wc, uc, state, records, uploads, active_cameras,
                   frame_count, src_left, finalized, boot, trackvars>>

InitMain ==
    /\ InitDetectors
    /\ state = [c \in Cams |-> AccidentState]
    /\ records = <<>>
    /\ uploads = <<>>
    /\ pc = "main"
    /\ active_cameras = {}
    /\ frame_count = 0
    /\ finalized = <<>>
    /\ boot \in BootInputs
    /\ src_left = [c \in Cams |-> 0]
    /\ InitTracker

NextMain == Main \/ Tick \/ LoopNoFrame \/ Interrupt \/ Finally \/ Exit

SpecMain == InitMain /\ [][NextMain]_vars

----------------------------------------------------------------------------
(* SpecPipeline: the capture threads, the queue and the dispatch loop      *)
(* together                                                                *)

\* One iteration of "while True" with the frame taken from the tracker.
\* Without a frame the iteration changes nothing: the break of that branch
\* needs frame_count > 0 with active_cameras empty.
Dispatch ==
    /\ pc = "loop"
    /\ get_frame
    /\ IF got'.ret
       THEN \E c \in Cams :
                /\ got'.cam_id = c
                /\ \E boxes \in BoxSets :
                      LET p == process_frame(det[c], boxes, now)
                          dets == [det EXCEPT ![c] = p.det]
                      IN  \E create_ok \in CreateOutcomes(p.events),
                             envs \in EnvChoices(dets) :
                             LET w0 == [det |-> dets, state |-> state,
                                        records |-> records, uploads |-> uploads]
                                 w1 == create_record(w0, c, p.events, now, create_ok)
                                 h == handle_clip(w1.det[c], FALSE, now, envs[c])
                                 w2 == clip_ready([w1 EXCEPT !.det[c] = h.det], c, h.ready)
                                 w3 == safety_check(w2, 1, now, envs)
                             IN  /\ det' = w3.det
                                 /\ state' = w3.state
                                 /\ records' = w3.records
                                 /\ uploads' = w3.uploads
                                 /\ events' = p.events
                                 /\ ready' = h.ready
                /\ active_cameras' = active_cameras \cup {c}
                /\ frame_count' = frame_count + 1
                /\ UNCHANGED <<now, last_call, wc, uc, pc, src_left, finalized, boot>>
       ELSE UNCHANGED <<now, detvars, wc, uc, coordvars>>

NextPipeline ==
    \/ \E c \in Cams : capture_read(c) /\ UNCHANGED <<now, detvars, wc, uc, coordvars>>
    \/ \E c \in Cams : capture_put(c) /\ UNCHANGED <<now, detvars, wc, uc, coordvars>>
    \/ Dispatch

----------------------------------------------------------------------------
(* The tracker alone, and write_clip alone                                 *)

InitIdle ==
    /\ InitDetectors
    /\ InitCoordinator
    /\ src_left = [c \in Cams |-> 0]
    /\ InitTracker

SpecTracker == InitIdle /\ [][NextTracker]_vars

SpecEncoder == InitIdle /\ [][CallWriteClip]_vars

SpecBuffer == InitIdle /\ [][FeedFrame]_vars

SpecPipeline == InitIdle /\ [][NextPipeline]_vars

----------------------------------------------------------------------------
(* SpecWindow: one detector fed more frames than its ring buffer holds,    *)
(* with handle_clip called at any moment between the frames                *)

\* detector.handle_clip(final), with the write_clip call it made, if any,
\* kept in wc: the frames handed over and the path returned
CollectWindow ==
    \E c \in HarnessCams, final \in BOOLEAN, env \in ClipEnvs :
        /\ LET r == handle_clip(det[c], final, now, env)
           IN  /\ det' = [det EXCEPT ![c] = r.det]
               /\ ready' = r.ready
               /\ last_call' = [op |-> "handle_clip", cam |-> c, final |-> final,
                                boxes |-> {}, env |-> env, writes |-> r.writes,
                                seq |-> 1 - last_call.seq]
               /\ wc' = IF r.writes = 1
                        THEN [frames |-> SelectFrom(det[c].frame_buffer,
                                                    det[c].active_clip[1], 1).frames,
                              env |-> env,
                              path |-> IF r.ready = <<>> THEN None
                                       ELSE Some(r.ready[1].clip_path),
                              called |-> TRUE]
                        ELSE wc
        /\ UNCHANGED <<now, events, uc, coordvars, trackvars>>

NextWindow == FeedFrame \/ CollectWindow

SpecWindow == InitIdle /\ [][NextWindow]_vars

----------------------------------------------------------------------------
(* SpecUpload: upload_clip_async called for records that are TRIMMED       *)

\* the table when uploads start: two records updated to TRIMMED with the
\* paths write_clip returned
InitUpload ==
    /\ InitDetectors
    /\ InitTracker
    /\ src_left = [c \in Cams |-> 0]
    /\ state = [c \in Cams |-> AccidentState]
    /\ records \in [1..2 -> [camera_id : Cams, status : {"TRIMMED"},
                             clip_path : {Some(ClipPath(StartTime, e)) :
                                             e \in {"mp4", "avi"}},
                             video_url : {None}]]
    /\ uploads = <<>>
    /\ pc = "loop"
    /\ active_cameras = Cams
    /\ frame_count = 0
    /\ finalized = <<>>
    /\ boot = DefaultBoot

CallUpload ==
    \E id \in 1..Len(records), exists \in BOOLEAN, env \in UploadEnvs :
        /\ records[id].status = "TRIMMED"
        /\ LET r == upload_clip_async_disk(records, records[id].clip_path[1], id,
                                           exists, env)
           IN  /\ records' = r.records
               /\ uc' = [accident_id |-> id, exists |-> exists, env |-> env,
                         on_disk |-> r.on_disk, raised |-> r.raised,
                         called |-> TRUE]
        /\ UNCHANGED <<now, detvars, wc, state, uploads, pc, active_cameras,
                       frame_count, src_left, finalized, boot, trackvars>>

SpecUpload == InitUpload /\ [][CallUpload]_vars

----------------------------------------------------------------------------
(* The dispatch loop under the scheduling the code gives: the loop keeps    *)
(* taking the frames its sources deliver, the clock advances and upload     *)
(* processes run to their end.  Nothing makes the user interrupt the        *)
(* session, and an iteration without a frame changes nothing.               *)

\* LoopFrame is enabled exactly in these states
FrameAvailable == pc = "loop" /\ \E c \in Cams : src_left[c] > 0

\* this step is a loop iteration that received a frame: a LoopFrame step
FrameTick == pc = "loop" /\ frame_count' = frame_count + 1

\* Weak fairness of LoopFrame, written with its enabling condition and its
\* steps spelled out.
FairSpec ==
    /\ Init
    /\ [][Next]_vars
    /\ WF_vars(Tick)
    /\ WF_vars(UploadEnd)
    /\ ([]<>(~FrameAvailable) \/ []<><<FrameTick>>_vars)

----------------------------------------------------------------------------
(* The tracker under the scheduling the code gives: every capture thread   *)
(* keeps running, the caller keeps calling get_frame while it has not      *)
(* called stop(), and stop() goes on to its drain because each join has a  *)
(* timeout.  Nothing makes the caller call stop().                         *)

\* a step of the capture thread of camera c
IngestorStep(c) ==
    (capture_read(c) \/ capture_put(c)) /\ UNCHANGED <<now, detvars, wc, uc, coordvars>>

\* a step of the caller other than the call of stop()
CallerStep ==
    (get_frame \/ stop_drain) /\ UNCHANGED <<now, detvars, wc, uc, coordvars>>

\* The tracker built with any queue_size up to QueueSize.  The number of
\* capture threads is the number of cameras fetched and is not tied to
\* queue_size, so a queue that holds fewer frames than there are threads is
\* among the starts.
InitAnySize ==
    /\ InitDetectors
    /\ InitCoordinator
    /\ src_left = [c \in Cams |-> 0]
    /\ running = TRUE
    /\ frame_queue = <<>>
    /\ maxsize \in 1..QueueSize
    /\ ing = [c \in Cams |-> [pc |-> "read", read |-> 0]]
    /\ got = [ret |-> FALSE, cam_id |-> "none", frame |-> 0]
    /\ taken = [c \in Cams |-> 0]
    /\ tpc = "run"

FairTracker ==
    /\ InitAnySize
    /\ [][NextTracker]_vars
    /\ \A c \in Cams : WF_vars(IngestorStep(c))
    /\ WF_vars(CallerStep)

----------------------------------------------------------------------------
(* SpecFrames: one camera's detector called the way the dispatch loop and  *)
(* the finally block call it; wc is the write_clip call made by the last   *)
(* step, if it made one                                                    *)

FramesMaxFrames == 22

\* the frames the write_clip call of handle_clip(d, ...) is handed, and what
\* it returned
WriteClipCall(d, r, env) ==
    [frames |-> SelectFrom(d.frame_buffer, d.active_clip[1], 1).frames,
     env |-> env,
     path |-> IF r.ready = <<>> THEN None ELSE Some(r.ready[1].clip_path),
     called |-> TRUE]

\* the environment a handle_clip call ran in: consulted only by write_clip
CalledEnv(h, env) == IF h.writes = 1 THEN env ELSE DefaultEnv

\* an iteration that calls handle_clip() before process_frame(frame)
DetectorFrame_swapped ==
    \E c \in HarnessCams, boxes \in BoxSets, env \in ClipEnvs :
        /\ pc = "loop"
        /\ det[c].frame_id < FramesMaxFrames
        /\ LET h == handle_clip(det[c], FALSE, now, env)
               p == process_frame(h.det, boxes, now)
           IN  /\ det' = [det EXCEPT ![c] = p.det]
               /\ events' = p.events
               /\ ready' = h.ready
               /\ last_call' = [op |-> "frame", cam |-> c, final |-> FALSE,
                                boxes |-> boxes, env |-> CalledEnv(h, env),
                                writes |-> h.writes,
                                seq |-> 1 - last_call.seq]
               /\ wc' = IF h.writes = 1 THEN WriteClipCall(det[c], h, env) ELSE NoWriteClip
        /\ UNCHANGED <<now, uc, coordvars, trackvars>>

\* the detector calls of one iteration that received a frame of camera c:
\* events = detector.process_frame(frame), then
\* ready_clips = detector.handle_clip()
DetectorFrame ==
    \E c \in HarnessCams, boxes \in BoxSets, env \in ClipEnvs :
        /\ pc = "loop"
        /\ det[c].frame_id < FramesMaxFrames
        /\ LET p == process_frame(det[c], boxes, now)
               h == handle_clip(p.det, FALSE, now, env)
           IN  /\ det' = [det EXCEPT ![c] = h.det]
               /\ events' = p.events
               /\ ready' = h.ready
               /\ last_call' = [op |-> "frame", cam |-> c, final |-> FALSE,
                                boxes |-> boxes, env |-> CalledEnv(h, env),
                                writes |-> h.writes,
                                seq |-> 1 - last_call.seq]
               /\ wc' = IF h.writes = 1 THEN WriteClipCall(p.det, h, env) ELSE NoWriteClip
        /\ UNCHANGED <<now, uc, coordvars, trackvars>>

\* forced_clips = check_detector.handle_clip(final=True) of the safety check,
\* at the end of an iteration; the loop goes on
ForceClose ==
    \E c \in HarnessCams, env \in ClipEnvs :
        /\ pc = "loop"
        /\ LET h == handle_clip(det[c], TRUE, now, env)
           IN  /\ det' = [det EXCEPT ![c] = h.det]
               /\ ready' = h.ready
               /\ last_call' = [op |-> "handle_clip", cam |-> c, final |-> TRUE,
                                boxes |-> {}, env |-> CalledEnv(h, env),
                                writes |-> h.writes,
                                seq |-> 1 - last_call.seq]
               /\ wc' = IF h.writes = 1 THEN WriteClipCall(det[c], h, env) ELSE NoWriteClip
        /\ UNCHANGED <<now, events, uc, coordvars, trackvars>>

\* an iteration that a KeyboardInterrupt ends after process_frame returned
\* and before handle_clip is called: control goes to the finally block
InterruptedFrame ==
    \E c \in HarnessCams, boxes \in BoxSets :
        /\ pc = "loop"
        /\ det[c].frame_id < FramesMaxFrames
        /\ LET p == process_frame(det[c], boxes, now)
           IN  /\ det' = [det EXCEPT ![c] = p.det]
               /\ events' = p.events
        /\ last_call' = [op |-> "process_frame", cam |-> c, final |-> FALSE,
                         boxes |-> boxes, env |-> DefaultEnv, writes |-> 0,
                         seq |-> 1 - last_call.seq]
        /\ pc' = "finally"
        /\ UNCHANGED <<now, ready, wc, uc, state, records, uploads, active_cameras,
                       frame_count, src_left, finalized, boot, trackvars>>

\* final_clips = detector.handle_clip(final=True) of the finally block,
\* entered between two iterations or from an interrupted one
FinallyClose ==
    \E c \in HarnessCams, env \in ClipEnvs :
        /\ pc \in {"loop", "finally"}
        /\ LET h == handle_clip(det[c], TRUE, now, env)
           IN  /\ det' = [det EXCEPT ![c] = h.det]
               /\ ready' = h.ready
               /\ last_call' = [op |-> "handle_clip", cam |-> c, final |-> TRUE,
                                boxes |-> {}, env |-> CalledEnv(h, env),
                                writes |-> h.writes,
                                seq |-> 1 - last_call.seq]
               /\ wc' = IF h.writes = 1 THEN WriteClipCall(det[c], h, env) ELSE NoWriteClip
        /\ pc' = "done"
        /\ UNCHANGED <<now, events, uc, state, records, uploads, active_cameras,
                       frame_count, src_left, finalized, boot, trackvars>>

NextFrames ==
    \/ TickDetector
    \/ DetectorFrame
    \/ ForceClose
    \/ InterruptedFrame
    \/ FinallyClose

SpecFrames == InitIdle /\ [][NextFrames]_vars

----------------------------------------------------------------------------
(* Steps and cases the properties speak about                              *)

\* this step processed a frame of camera c
Processed(c) == det'[c].frame_id = det[c].frame_id + 1

\* this step processed a frame of camera c and process_frame fired a trigger
Triggered(c) == Processed(c) /\ events' # <<>>

\* this step created a record for camera c
RecordCreated(c) ==
    /\ Len(records') = Len(records) + 1
    /\ records'[Len(records')].camera_id = c

\* the ids of the records of camera c
RecordsOf(c) == {i \in 1..Len(records) : records[i].camera_id = c}

\* this step is a call made by the detector harness
Called == last_call'.seq # last_call.seq

----------------------------------------------------------------------------
(* C1 (stated as claimed; the code violates it)                            *)
(* Whenever process_frame fires a trigger for a camera and start_clip      *)
(* runs, that camera's active_clip is None: an open window is never        *)
(* replaced before it is finalized.                                        *)
C1_NoTriggerWhileWindowOpen ==
    [][\A c \in Cams : Triggered(c) => det[c].active_clip = None]_vars

(* C2 (stated as claimed; the code violates it)                            *)
(* While the session runs, a camera that is active with its stuck timeout  *)
(* expired eventually returns to IDLE, whatever the frame supply of the    *)
(* cameras does.  This is the claim for the cameras whose timeout expires  *)
(* within MaxTime, in a session the user does not interrupt.               *)
C2_ActiveEventuallyIdle ==
    \A c \in Cams :
        (state[c].active /\ now - state[c].last_event_time > STUCK_TIMEOUT)
            ~> (~state[c].active \/ pc # "loop")

(* C3 (stated as claimed; the code violates it)                            *)
(* An ingestor never blocks on the frame channel: a thread that reaches    *)
(* frame_queue.put() finds room in the queue.                              *)
C3_PutNeverBlocks ==
    \A c \in Cams : ing[c].pc = "put" => Len(frame_queue) < maxsize

(* C4                                                                      *)
(* Record-level debounce: a record is created for a camera only when more  *)
(* than 45 s have passed since that camera's last_event_time, and the      *)
(* creation sets last_event_time to the current time; so a trigger within  *)
(* 45 s of the last creation creates no record.                            *)
C4_RecordDebounce ==
    [][\A c \in Cams :
          /\ RecordCreated(c) =>
                /\ Triggered(c)
                /\ now - state[c].last_event_time > RECORD_COOLDOWN
                /\ state'[c].last_event_time = now
          /\ (Triggered(c) /\ now - state[c].last_event_time <= RECORD_COOLDOWN) =>
                /\ ~RecordCreated(c)
                /\ state'[c].last_event_time = state[c].last_event_time
      ]_vars

\* a trigger fired on an idle camera within 45 s of its last record, and
\* the camera still has that one record only
C4_Witness ==
    \E c \in Cams :
        /\ pc = "loop"
        /\ events # <<>>
        /\ events[1].time = now
        /\ det[c].global_last = now
        /\ ~state[c].active
        /\ state[c].last_event_time > 0
        /\ now - state[c].last_event_time <= RECORD_COOLDOWN
        /\ Cardinality(RecordsOf(c)) = 1

C6_ResetBeforeUploadResolves ==
    [][/\ \A c \in Cams :
             (/\ pc = "loop"
              /\ Len(uploads') > Len(uploads)
              /\ \E i \in (Len(uploads) + 1)..Len(uploads') :
                    /\ uploads'[i].accident_id = state[c].accident_id
                    /\ uploads'[i].status = "running")
             => /\ ~state'[c].active
                /\ state'[c].accident_id = 0
       /\ (\E i \in 1..Len(uploads) :
              i <= Len(uploads') /\ uploads[i].status = "running"
                                 /\ uploads'[i].status \in UploadOutcomes)
             => /\ state' = state
                /\ det' = det
                /\ pc' = pc
      ]_vars

\* a camera holds a new record while the upload of its earlier record has
\* failed or is still running
C6_Witness ==
    \E c \in Cams, i \in 1..Len(uploads) :
        /\ uploads[i].status \in {"running", "fail"}
        /\ records[uploads[i].accident_id].camera_id = c
        /\ state[c].active
        /\ state[c].accident_id > uploads[i].accident_id

(* C7 (stated as claimed; the code violates it)                            *)
(* write_clip returns a path for every non-empty frame list, whatever the  *)
(* outcome of the transcode step.                                          *)
C7_AlwaysAnArtifact ==
    (wc.called /\ wc.frames # <<>>) => wc.path # None

(* C7 (amended)                                                            *)
(* write_clip returns a path for every non-empty frame list unless the     *)
(* transcode fails and the intermediate file does not exist: the final     *)
(* .mp4 path when the transcode succeeds, the path of the renamed          *)
(* intermediate file (.avi) when it fails in any way and the intermediate  *)
(* file exists; it returns None for an empty frame list and when the       *)
(* transcode fails with the intermediate file missing.                     *)
C7_ArtifactUnlessNothingWritten ==
    wc.called =>
        /\ wc.path = None <=>
              \/ wc.frames = <<>>
              \/ (wc.env.ffmpeg # "ok" /\ ~wc.env.temp_exists)
        /\ wc.path # None =>
              wc.path[1].ext = (IF wc.env.ffmpeg = "ok" THEN "mp4" ELSE "avi")

\* ffmpeg is not installed and write_clip returned the renamed intermediate
\* file
C7_Witness ==
    /\ wc.called
    /\ wc.frames # <<>>
    /\ wc.env.ffmpeg = "FileNotFoundError"
    /\ wc.path # None
    /\ wc.path[1].ext = "avi"

(* C8                                                                      *)
(* A frame qualifies when it has a detection with confidence above 0.4 and *)
(* more than 12 s have passed since the last trigger.  process_frame       *)
(* appends one entry to pending for a qualifying frame and returns no      *)
(* event while that makes fewer than three entries; on the third it        *)
(* returns exactly one ACCIDENT event, clears pending and sets             *)
(* global_last.  A frame that does not qualify leaves pending as it is     *)
(* and returns no event.                                                   *)
C8_TriggerOnThirdQualifyingFrame ==
    [][(Called /\ last_call'.op = "process_frame") =>
          LET c == last_call'.cam
              qualifies ==
                  /\ \E b \in last_call'.boxes : b > CONF_THRESHOLD
                  /\ now - det[c].global_last > GLOBAL_COOLDOWN
          IN  /\ Len(det[c].pending) <= 2
              /\ (qualifies /\ Len(det[c].pending) < 2) =>
                    /\ events' = <<>>
                    /\ det'[c].pending = Append(det[c].pending, now)
                    /\ det'[c].global_last = det[c].global_last
              /\ (qualifies /\ Len(det[c].pending) = 2) =>
                    /\ events' = <<[type |-> "ACCIDENT", time |-> now]>>
                    /\ det'[c].pending = <<>>
                    /\ det'[c].global_last = now
              /\ ~qualifies =>
                    /\ events' = <<>>
                    /\ det'[c].pending = det[c].pending
                    /\ det'[c].global_last = det[c].global_last
      ]_vars

\* the first trigger of a detector fired on a frame later than its third:
\* frames that did not qualify came in between
C8_Witness ==
    \E c \in HarnessCams :
        /\ last_call.op = "process_frame"
        /\ last_call.cam = c
        /\ events # <<>>
        /\ det[c].frame_id > 3
        /\ det[c].active_clip # None
        /\ det[c].active_clip[1].end = det[c].frame_id + det[c].fps * CLIP_SECONDS
        /\ det[c].global_last = StartTime + 13

(* C9                                                                      *)
(* The window a trigger opens spans [triggerSeq - fps*5, triggerSeq +      *)
(* fps*5] with no frame collected yet, triggerSeq being the sequence       *)
(* number of the frame whose processing fired the trigger; with fps 10 and *)
(* trigger sequence 100 it is [50, 150].                                   *)
C9_WindowAroundTrigger ==
    [][/\ (Called /\ last_call'.op = "process_frame" /\ events' # <<>>) =>
             LET c == last_call'.cam
                 triggerSeq == det[c].frame_id + 1
             IN  /\ det'[c].frame_id = triggerSeq
                 /\ det'[c].active_clip =
                       Some([start |-> triggerSeq - det[c].fps * 5,
                             end |-> triggerSeq + det[c].fps * 5,
                             frames |-> <<>>,
                             last |-> 0])
       /\ LET w == start_clip([AccidentDetector(10) EXCEPT !.frame_id = 100])
          IN  w.start = 50 /\ w.end = 150
      ]_vars

\* process_frame just fired a trigger and opened a window
C9_Witness ==
    \E c \in HarnessCams :
        /\ last_call.op = "process_frame"
        /\ last_call.cam = c
        /\ events # <<>>
        /\ det[c].active_clip # None
        /\ det[c].active_clip[1].start = det[c].frame_id - 5

(* C10                                                                     *)
(* A handle_clip call on an open window discards the window exactly when   *)
(* final is true or frame_id is greater than the window's end (it stays    *)
(* open while frame_id <= end and final is false), and it returns a        *)
(* clip-ready event only when it discards the window and the encoder       *)
(* returned a path.                                                        *)
C10_FinalizeWhenPastEndOrForced ==
    [][(/\ Called
        /\ last_call'.op = "handle_clip"
        /\ det[last_call'.cam].active_clip # None) =>
          LET c == last_call'.cam
              clip == det[c].active_clip[1]
              finalize == last_call'.final \/ det[c].frame_id > clip.end
              encoded == last_call'.env.ffmpeg = "ok" \/ last_call'.env.temp_exists
          IN  /\ det'[c].active_clip = None <=> finalize
              /\ ~finalize =>
                    /\ det'[c].active_clip[1].start = clip.start
                    /\ det'[c].active_clip[1].end = clip.end
              /\ ready' # <<>> => (finalize /\ encoded)
              /\ (finalize /\ ~encoded) => ready' = <<>>
      ]_vars

\* a handle_clip(final=False) call finalized the window by sequence
\* progression and returned a clip
C10_Witness ==
    \E c \in HarnessCams :
        /\ last_call.op = "handle_clip"
        /\ last_call.cam = c
        /\ ~last_call.final
        /\ ready # <<>>
        /\ det[c].active_clip = None

(* C11                                                                     *)
(* Once a detector's window has been finalized and discarded, a handle_clip *)
(* call, forced or not, returns an empty list, makes no write_clip call and *)
(* leaves the detector as it is; this goes on, call after call, until       *)
(* process_frame fires a trigger and opens a window.                        *)
C11_HandleClipIdempotent ==
    [][/\ (/\ Called
           /\ last_call'.op = "handle_clip"
           /\ det[last_call'.cam].active_clip = None)
          => /\ ready' = <<>>
             /\ last_call'.writes = 0
             /\ det' = det
       /\ \A c \in HarnessCams :
             (det[c].active_clip = None /\ det'[c].active_clip # None)
                => (Called /\ last_call'.op = "process_frame" /\ events' # <<>>)
      ]_vars

\* a forced handle_clip call on a detector whose window was finalized and
\* discarded earlier: it wrote nothing and returned nothing
C11_Witness ==
    \E c \in HarnessCams :
        /\ last_call.op = "handle_clip"
        /\ last_call.cam = c
        /\ last_call.final
        /\ last_call.writes = 0
        /\ ready = <<>>
        /\ det[c].global_last > 0
        /\ det[c].active_clip = None

(* C12                                                                     *)
(* After any sequence of process_frame calls the ring buffer of a detector *)
(* holds at most fps*20 entries, and they are the sequence numbers of the   *)
(* frames processed last, in increasing order without a gap: with n frames  *)
(* processed it holds n - k + 1 .. n for k = min(n, fps*20), so what an     *)
(* overflow evicts is the entry with the smallest sequence number.          *)
C12_RingBufferKeepsNewest ==
    \A c \in HarnessCams :
        LET b == det[c].frame_buffer
            n == det[c].frame_id
            cap == det[c].fps * BUFFER_SECONDS
        IN  /\ Len(b) <= cap
            /\ Len(b) = IF n <= cap THEN n ELSE cap
            /\ \A i \in 1..Len(b) : b[i] = n - Len(b) + i

\* the buffer overflowed more than once: it is full and its oldest entries
\* are gone
C12_Witness ==
    \E c \in HarnessCams :
        /\ det[c].frame_id >= det[c].fps * BUFFER_SECONDS + 2
        /\ Len(det[c].frame_buffer) = det[c].fps * BUFFER_SECONDS
        /\ det[c].frame_buffer[1] = det[c].frame_id - det[c].fps * BUFFER_SECONDS + 1

(* C13 (stated as claimed; the code violates it)                           *)
(* Between two iterations of the dispatch loop, for every camera:          *)
(* active=true implies that accident_id is set and that the camera's       *)
(* detector holds a window not yet finalized; and a camera never has more  *)
(* than one open (DETECTED) record.                                        *)
C13_ActiveHasLiveWindow ==
    pc = "loop" =>
        \A c \in Cams :
            /\ state[c].active =>
                  /\ state[c].accident_id # 0
                  /\ det[c].active_clip # None
            /\ Cardinality({i \in RecordsOf(c) : records[i].status = "DETECTED"}) <= 1

(* C14 (stated as claimed; the code violates it)                           *)
(* An upload, once dispatched, is never cancelled: the record it was       *)
(* dispatched for eventually reaches UPLOADED or UPLOAD_FAILED, also when  *)
(* the session shuts down right after the dispatch.  This is the claim for *)
(* the first upload the session dispatches, and it leaves aside the upload *)
(* that finds its clip file missing.                                       *)
C14_DispatchedUploadResolves ==
    (Len(uploads) >= 1 /\ uploads[1].status = "running")
        ~> /\ Len(uploads) >= 1
           /\ \/ records[uploads[1].accident_id].status \in {"UPLOADED", "UPLOAD_FAILED"}
              \/ uploads[1].status = "no_file"

(* C15 (stated as claimed; the code violates it)                           *)
(* Once stop() has returned, the frame queue holds no frame; and a         *)
(* get_frame call made after the running flag was cleared delivers no      *)
(* frame.                                                                  *)
C15_StoppedChannelEmpty ==
    [][/\ tpc' = "stopped" => frame_queue' = <<>>
       /\ (~running /\ got' # got) => ~got'.ret
      ]_vars

(* C16                                                                     *)
(* The finally block stops the tracker and calls handle_clip(final=True)    *)
(* once for every camera in active_cameras (the cameras that delivered a    *)
(* frame), in the order of the detectors, and for no other camera.  Each    *)
(* clip such a call returns for a camera whose accident_id is set is        *)
(* written to that record with its path, and upload_clip_async has run to   *)
(* its end for it when the block is left: the record is UPLOADED,           *)
(* UPLOAD_FAILED, or still TRIMMED when the upload found no file.  Nothing  *)
(* else is uploaded, and no AccidentState changes.                          *)
C16_ShutdownFinalizesActiveCameras ==
    [][(pc = "finally" /\ pc' = "done") =>
          /\ ~running'
          /\ tpc' = "stopped"
          /\ {finalized'[i].cam : i \in 1..Len(finalized')} = active_cameras
          /\ Len(finalized') = Cardinality(active_cameras)
          /\ \A c \in Cams :
                IF c \in active_cameras
                THEN det'[c].active_clip = None
                ELSE det'[c] = det[c]
          /\ LET clips == {i \in 1..Len(finalized') :
                              /\ finalized'[i].ready # <<>>
                              /\ state[finalized'[i].cam].accident_id # 0}
             IN  /\ Len(uploads') = Len(uploads) + Cardinality(clips)
                 /\ \A i \in clips :
                       LET id == state[finalized'[i].cam].accident_id
                           path == finalized'[i].ready[1].clip_path
                       IN  \E j \in (Len(uploads) + 1)..Len(uploads') :
                               /\ uploads'[j].accident_id = id
                               /\ uploads'[j].clip_path = path
                               /\ uploads'[j].status \in UploadOutcomes
                               /\ records'[id].clip_path = Some(path)
                               /\ records'[id].status =
                                     CASE uploads'[j].status = "ok" -> "UPLOADED"
                                       [] uploads'[j].status = "fail" -> "UPLOAD_FAILED"
                                       [] OTHER -> "TRIMMED"
          /\ state' = state
      ]_vars

\* the session has shut down: one camera never delivered a frame and was
\* skipped, the other was finalized, and its clip is in its record, uploaded
C16_Witness ==
    /\ pc = "done"
    /\ \E c \in Cams : c \notin active_cameras
    /\ \E i \in 1..Len(finalized) :
          /\ finalized[i].ready # <<>>
          /\ state[finalized[i].cam].accident_id # 0
          /\ records[state[finalized[i].cam].accident_id].status = "UPLOADED"
          /\ records[state[finalized[i].cam].accident_id].clip_path =
                Some(finalized[i].ready[1].clip_path)

(* C17                                                                     *)
(* The frames of one camera reach its detector in the order its capture    *)
(* thread read them, however the threads of the cameras interleave: each   *)
(* frame a detector processes is the one get_frame just returned for its   *)
(* camera, and its capture number is greater than that of every frame of   *)
(* the camera processed before.  Every returned frame is processed, and    *)
(* each processed frame gets the next sequence number: frame_id grows by   *)
(* exactly one and is the last entry of the buffer.                        *)
C17_PerCameraCaptureOrder ==
    [][\A c \in Cams :
          /\ Processed(c) =>
                /\ got'.ret
                /\ got'.cam_id = c
                /\ got'.frame > taken[c]
                /\ taken'[c] = got'.frame
                /\ det'[c].frame_buffer[Len(det'[c].frame_buffer)] = det'[c].frame_id
          /\ taken'[c] # taken[c] => Processed(c)
          /\ det'[c].frame_id \in {det[c].frame_id, det[c].frame_id + 1}
          /\ ing'[c].read \in {ing[c].read, ing[c].read + 1}
          /\ \A i, j \in 1..Len(frame_queue) :
                (i < j /\ frame_queue[i].cam_id = c /\ frame_queue[j].cam_id = c)
                   => frame_queue[i].frame < frame_queue[j].frame
      ]_vars

\* cam1's detector has processed two frames, the second being the third
\* frame its thread read (one was dropped at a full queue), with frames of
\* cam2 processed in between or around
C17_Witness ==
    /\ det["cam1"].frame_id = 2
    /\ taken["cam1"] = 3
    /\ det["cam2"].frame_id >= 1

(* C18 (stated as claimed; the code violates it)                           *)
(* The script does not end with exit status 0 when no camera source        *)
(* validates (none of the fetched sources can be opened, or none was       *)
(* fetched) or when the model file does not exist.                         *)
C18_NoSourceNoModelExitsNonZero ==
    pc = "exited" => (validated_cameras(boot) # {} /\ boot.model_exists)

(* C19                                                                     *)
(* A trigger on an idle camera with more than 45 s passed since            *)
(* last_event_time attempts the insert.  When the insert fails, no record  *)
(* is added and the camera's state is left as it was: active false,        *)
(* accident_id None, last_event_time unchanged, so the cooldown test of    *)
(* the camera's next trigger passes again and the insert is attempted      *)
(* again.  When it succeeds the camera is active with the new record's id  *)
(* and last_event_time = now.  Nothing but a successful insert makes a     *)
(* camera active or changes its last_event_time.                           *)
C19_FailedCreateLeavesIdle ==
    [][\A c \in Cams :
          /\ (/\ Triggered(c)
              /\ ~state[c].active
              /\ now - state[c].last_event_time > RECORD_COOLDOWN)
             => IF RecordCreated(c)
                THEN /\ state'[c].active
                     /\ state'[c].accident_id = Len(records')
                     /\ state'[c].last_event_time = now
                     /\ records'[Len(records')].status = "DETECTED"
                ELSE /\ state'[c] = state[c]
                     /\ Len(records') = Len(records)
          /\ (state'[c].active /\ ~state[c].active) => RecordCreated(c)
          /\ state'[c].last_event_time # state[c].last_event_time
                => RecordCreated(c)
      ]_vars

\* a trigger has just fired on a camera that never had a record, and the
\* insert failed: the camera is idle, its last_event_time still 0
C19_Witness ==
    \E c \in Cams :
        /\ pc = "loop"
        /\ events # <<>>
        /\ events[1].time = now
        /\ det[c].global_last = now
        /\ det[c].active_clip # None
        /\ det[c].active_clip[1].end = det[c].frame_id + det[c].fps * CLIP_SECONDS
        /\ ~state[c].active
        /\ state[c].accident_id = 0
        /\ state[c].last_event_time = 0
        /\ RecordsOf(c) = {}

(* C20                                                                     *)
(* When the handle_clip call of a loop iteration returns a clip for a      *)
(* camera that is active, then at the end of that iteration the record is  *)
(* TRIMMED with the clip's path, an upload is running for (clip path,      *)
(* record id), the id being the one the camera held, and the camera is     *)
(* IDLE with last_event_time kept.  A record becomes UPLOADED or           *)
(* UPLOAD_FAILED only from TRIMMED, or within the finally block, which     *)
(* writes TRIMMED and uploads in one go.                                   *)
C20_TrimmedThenUploadThenIdle ==
    [][/\ \A c \in Cams :
             (/\ pc = "loop"
              /\ Processed(c)
              /\ ready' # <<>>
              /\ state[c].active
              /\ state[c].accident_id # 0)
             => LET id == state[c].accident_id
                    path == ready'[1].clip_path
                IN  /\ records'[id].status = "TRIMMED"
                    /\ records'[id].clip_path = Some(path)
                    /\ Len(uploads') = Len(uploads) + 1
                    /\ uploads'[Len(uploads')] =
                          [accident_id |-> id, clip_path |-> path, status |-> "running"]
                    /\ state'[c] = [active |-> FALSE, accident_id |-> 0,
                                    last_event_time |-> state[c].last_event_time]
       /\ \A i \in 1..Len(records) :
             (/\ records'[i].status \in {"UPLOADED", "UPLOAD_FAILED"}
              /\ records[i].status \notin {"UPLOADED", "UPLOAD_FAILED"})
             => \/ records[i].status = "TRIMMED"
                \/ pc = "finally"
      ]_vars

\* the handle_clip call of the last iteration returned a clip by sequence
\* progression: its record is TRIMMED, its upload running, its camera idle
C20_Witness ==
    /\ pc = "loop"
    /\ ready # <<>>
    /\ \E j \in 1..Len(uploads) :
          /\ uploads[j].clip_path = ready[1].clip_path
          /\ uploads[j].status = "running"
          /\ records[uploads[j].accident_id].status = "TRIMMED"
          /\ records[uploads[j].accident_id].clip_path = Some(ready[1].clip_path)
          /\ ~state[records[uploads[j].accident_id].camera_id].active

(* C21                                                                     *)
(* In every loop iteration that received a frame, the safety net examines  *)
(* every camera: at the end of the iteration no camera is active with more *)
(* than 45 s passed since last_event_time.  A camera whose frame was not   *)
(* the one received and that was active with more than 45 s passed is      *)
(* force-finalized in that iteration: its window is closed, its state is   *)
(* IDLE, and its record is TRIMMED with an upload started exactly when the *)
(* forced call yielded a clip.  A camera whose frame was not the one       *)
(* received and that was not active, or active for at most 45 s, keeps its *)
(* state, its detector and its records, and no upload is started for it.   *)
C21_SafetyNetExaminesAllCameras ==
    [][FrameTick =>
         \A c \in Cams :
            /\ ~(state'[c].active /\ now' - state'[c].last_event_time > STUCK_TIMEOUT)
            /\ ~Processed(c) =>
                 LET id == state[c].accident_id
                     started(ids) ==
                         \E i \in (Len(uploads) + 1)..Len(uploads') :
                             /\ uploads'[i].accident_id \in ids
                             /\ uploads'[i].status = "running"
                 IN  IF state[c].active /\ now - state[c].last_event_time > STUCK_TIMEOUT
                     THEN /\ det'[c].active_clip = None
                          /\ state'[c] = IdleState(state[c])
                          /\ (det[c].active_clip # None /\ started({id}))
                                => /\ records'[id].status = "TRIMMED"
                                   /\ records'[id].clip_path # None
                          /\ records'[id].status = "TRIMMED" <=> started({id})
                     ELSE /\ state'[c] = state[c]
                          /\ det'[c] = det[c]
                          /\ \A i \in RecordsOf(c) : records'[i] = records[i]
                          /\ ~started(RecordsOf(c))
      ]_vars

\* cam2 triggered on the last frame it delivered and stalled; more than 45 s
\* later an iteration that received a frame of another camera force-finalized
\* its window, and its record is TRIMMED with the camera IDLE
C21_Witness ==
    \E i \in 1..Len(records) :
        LET c == records[i].camera_id
        IN  /\ c = CamOrder[2]
            /\ pc = "loop"
            /\ det[c].frame_id = TRIGGER_COUNT
            /\ det[c].global_last = state[c].last_event_time
            /\ det[c].active_clip = None
            /\ ~state[c].active
            /\ records[i].status = "TRIMMED"
            /\ records[i].clip_path[1].t - state[c].last_event_time > STUCK_TIMEOUT
            /\ \E u \in 1..Len(uploads) : uploads[u].accident_id = i

(* C22                                                                     *)
(* The pending sequence of a detector never holds more than two entries    *)
(* between calls.  A process_frame call makes it longer by at most one     *)
(* entry, and makes it longer only for a frame that has a detection above  *)
(* the threshold while more than 12 s have passed since global_last; the   *)
(* call that would make the third entry fires the trigger, sets            *)
(* global_last to the time of the call and leaves pending empty.  No other *)
(* call changes pending.                                                   *)
C22_PendingAtMostTwo ==
    /\ [](\A c \in Cams : Len(det[c].pending) <= TRIGGER_COUNT - 1)
    /\ [][\A c \in Cams :
            LET qualifies ==
                    /\ last_call'.op = "process_frame"
                    /\ last_call'.cam = c
                    /\ \E b \in last_call'.boxes : b > CONF_THRESHOLD
                    /\ now - det[c].global_last > GLOBAL_COOLDOWN
            IN  /\ Len(det'[c].pending) <= Len(det[c].pending) + 1
                /\ Len(det'[c].pending) > Len(det[c].pending) => (Called /\ qualifies)
                /\ (Called /\ qualifies /\ Len(det[c].pending) = TRIGGER_COUNT - 1)
                      => /\ events' # <<>>
                         /\ det'[c].global_last = now
                         /\ det'[c].pending = <<>>
                /\ det'[c].pending # det[c].pending
                      => (Called /\ last_call'.op = "process_frame")
      ]_vars

\* after an earlier trigger and its cooldown, two qualifying frames are
\* pending again
C22_Witness ==
    \E c \in HarnessCams :
        /\ last_call.op = "process_frame"
        /\ last_call.cam = c
        /\ Len(det[c].pending) = TRIGGER_COUNT - 1
        /\ det[c].global_last >= StartTime
        /\ det[c].pending[1] - det[c].global_last > GLOBAL_COOLDOWN

(* C23                                                                     *)
(* Entries leave the pending sequence only when a trigger fires: in every  *)
(* step that is not a process_frame call returning an ACCIDENT event, the  *)
(* pending sequence keeps all its entries in place, whether the step is a  *)
(* frame without a detection, a handle_clip call or the passing of time.   *)
(* A qualifying frame that finds two entries pending fires the trigger     *)
(* whatever the times of those entries are.                                *)
C23_PendingClearedOnlyByTrigger ==
    [][\A c \in Cams :
          LET old == det[c].pending
              new == det'[c].pending
              fired == /\ Called
                       /\ last_call'.op = "process_frame"
                       /\ last_call'.cam = c
                       /\ events' = <<[type |-> "ACCIDENT", time |-> now]>>
              qualifies ==
                  /\ Called
                  /\ last_call'.op = "process_frame"
                  /\ last_call'.cam = c
                  /\ \E b \in last_call'.boxes : b > CONF_THRESHOLD
                  /\ now - det[c].global_last > GLOBAL_COOLDOWN
          IN  /\ ~fired => /\ Len(new) >= Len(old)
                           /\ SubSeq(new, 1, Len(old)) = old
              /\ fired => /\ new = <<>>
                          /\ Len(old) = TRIGGER_COUNT - 1
              /\ (qualifies /\ Len(old) = TRIGGER_COUNT - 1) => fired
      ]_vars

\* two entries made more than 24 s apart are still pending after a frame
\* without any detection
C23_Witness ==
    \E c \in HarnessCams :
        /\ last_call.op = "process_frame"
        /\ last_call.cam = c
        /\ last_call.boxes = {}
        /\ Len(det[c].pending) = TRIGGER_COUNT - 1
        /\ det[c].pending[2] - det[c].pending[1] > 2 * GLOBAL_COOLDOWN
        /\ det[c].frame_id > TRIGGER_COUNT

(* C24                                                                     *)
(* In every state an open window holds frames with strictly increasing     *)
(* sequence numbers, the last of them being its "last".  Every handle_clip *)
(* call on an open window keeps the frames collected before in place and   *)
(* adds only frames that are in the ring buffer at the time of the call,   *)
(* lie in [start, end] and have a sequence number above the last one       *)
(* collected before; the frames handed to write_clip by the closing call   *)
(* are the frames collected this way.                                      *)
C24_CollectedFramesIncreasing ==
    /\ [](\A c \in Cams :
            det[c].active_clip # None =>
               LET clip == det[c].active_clip[1]
               IN  /\ Increasing(clip.frames)
                   /\ clip.last = IF clip.frames = <<>> THEN 0
                                  ELSE clip.frames[Len(clip.frames)])
    /\ [][\A c \in Cams :
            (/\ Called
             /\ last_call'.op = "handle_clip"
             /\ last_call'.cam = c
             /\ det[c].active_clip # None)
            => LET old == det[c].active_clip[1]
                   buffered == {det[c].frame_buffer[k] : k \in 1..Len(det[c].frame_buffer)}
                   collected == IF det'[c].active_clip # None
                                THEN det'[c].active_clip[1].frames
                                ELSE wc'.frames
               IN  /\ Increasing(collected)
                   /\ Len(collected) >= Len(old.frames)
                   /\ SubSeq(collected, 1, Len(old.frames)) = old.frames
                   /\ \A k \in (Len(old.frames) + 1)..Len(collected) :
                         /\ collected[k] \in buffered
                         /\ collected[k] > old.last
                         /\ old.start <= collected[k] /\ collected[k] <= old.end
                   /\ det'[c].frame_buffer = det[c].frame_buffer
      ]_vars

\* a window was closed after several handle_clip calls: it had collected
\* frame 1 in an early call, and a later call found the frames that followed
\* the last collected one already pushed out of the ring buffer, so the
\* frames written are increasing but not consecutive
C24_Witness ==
    /\ last_call.op = "handle_clip"
    /\ last_call.writes = 1
    /\ wc.called
    /\ Len(wc.frames) >= 2
    /\ wc.frames[1] = 1
    /\ \E k \in 1..(Len(wc.frames) - 1) : wc.frames[k + 1] > wc.frames[k] + 1

(* C25 (stated as claimed; the code violates it)                           *)
(* After an upload_clip_async call that found the clip file: when the      *)
(* upload succeeded the record is UPLOADED with a video_url and the clip   *)
(* file is no longer on disk; when it failed the record is UPLOAD_FAILED   *)
(* with the clip path and the file is still on disk; no exception leaves   *)
(* the call.                                                               *)
C25_UploadedFileDeleted ==
    (uc.called /\ uc.exists) =>
        LET rec == records[uc.accident_id]
        IN  /\ ~uc.raised
            /\ uc.env.upload = "ok" =>
                  /\ rec.status = "UPLOADED"
                  /\ rec.video_url # None
                  /\ ~uc.on_disk
            /\ uc.env.upload = "fail" =>
                  /\ rec.status = "UPLOAD_FAILED"
                  /\ rec.clip_path # None
                  /\ uc.on_disk

(* C25 (amended)                                                           *)
(* An upload_clip_async call for a TRIMMED record never lets an exception  *)
(* out.  When the clip file exists and the upload succeeds, the record     *)
(* becomes UPLOADED with a video_url and keeps its clip_path, and the file *)
(* is removed unless os.remove fails, in which case it stays on disk with  *)
(* the record still UPLOADED.  When the upload fails, the record becomes   *)
(* UPLOAD_FAILED with the clip_path of the call and no video_url, and the  *)
(* file is kept.  When the file does not exist at the call, the record is  *)
(* not written at all.  No other record is touched.                        *)
C25_UploadOutcomes ==
    [][uc'.called /\ uc' # uc =>
         LET id == uc'.accident_id
             old == records[id]
             new == records'[id]
         IN  /\ ~uc'.raised
             /\ \A j \in 1..Len(records) : j # id => records'[j] = records[j]
             /\ Len(records') = Len(records)
             /\ (uc'.exists /\ uc'.env.upload = "ok") =>
                   /\ new = [old EXCEPT !.status = "UPLOADED",
                                        !.video_url = new.video_url]
                   /\ new.video_url # None
                   /\ uc'.on_disk = ~uc'.env.remove_ok
             /\ (uc'.exists /\ uc'.env.upload = "fail") =>
                   /\ new = [old EXCEPT !.status = "UPLOAD_FAILED"]
                   /\ new.clip_path # None
                   /\ new.video_url = None
                   /\ uc'.on_disk
             /\ ~uc'.exists =>
                   /\ new = old
                   /\ ~uc'.on_disk
      ]_vars

\* an upload succeeded, the record is UPLOADED, and the clip file is still
\* on disk because os.remove failed
C25_Witness ==
    /\ uc.called
    /\ uc.exists
    /\ uc.env.upload = "ok"
    /\ ~uc.env.remove_ok
    /\ uc.on_disk
    /\ records[uc.accident_id].status = "UPLOADED"
    /\ \E j \in 1..Len(records) : records[j].status = "UPLOAD_FAILED"

(* C26 (stated as claimed; the code violates it)                           *)
(* Every capture thread ends and releases its source, and does so once:    *)
(* under fair scheduling each thread reaches cap.release(), whether its    *)
(* source ended, a read failed or stop() was called, and a thread that     *)
(* released its source takes no further step.  A thread leaves its loop    *)
(* only at the loop test.  The running flag, once cleared, stays cleared,  *)
(* and from then on no thread reads a frame again: a thread at the loop    *)
(* test ends there, and a thread that holds a frame for the queue puts     *)
(* that one frame and then ends, so each thread enqueues at most one frame *)
(* after the flag was cleared.                                             *)
C26_IngestorsTerminate ==
    /\ <>[](\A c \in Cams : ing[c].pc = "released")
    /\ (~running) ~> (\A c \in Cams : ing[c].pc = "released")
    /\ [][/\ ~running => ~running'
          /\ \A c \in Cams :
                /\ ing[c].pc = "released" => ing'[c] = ing[c]
                /\ (ing'[c].pc = "released" /\ ing[c].pc # "released")
                      => ing[c].pc = "read" /\ ing'[c].read = ing[c].read
                /\ (~running /\ ing[c].pc = "read")
                      => /\ ing'[c].pc \in {"read", "released"}
                         /\ ing'[c].read = ing[c].read
                         /\ \A k \in 1..Len(frame_queue') :
                               frame_queue'[k].cam_id = c
                                  => \E j \in 1..Len(frame_queue) :
                                        frame_queue[j] = frame_queue'[k]
                /\ (ing[c].pc = "put" /\ ing'[c].pc # "put")
                      => /\ ing'[c].pc = "read"
                         /\ frame_queue' = Append(frame_queue,
                                                  [cam_id |-> c, frame |-> ing[c].read])
      ]_vars

C28_IgnoredTrigger ==
    [][\A c \in Cams :
          LET ignored ==
                  /\ Triggered(c)
                  /\ \/ state[c].active
                     \/ now - state[c].last_event_time <= RECORD_COOLDOWN
              started ==
                  \E i \in (Len(uploads) + 1)..Len(uploads') :
                      uploads'[i].accident_id \in RecordsOf(c)
          IN  /\ ignored =>
                    /\ Len(records') = Len(records)
                    /\ state'[c].last_event_time = state[c].last_event_time
                    /\ state'[c] \in {state[c], IdleState(state[c])}
                    /\ state'[c] # state[c]
                          => now - state[c].last_event_time > STUCK_TIMEOUT
                    /\ ~state[c].active =>
                          /\ det'[c].active_clip # None
                          /\ det'[c].active_clip[1].end
                                = det'[c].frame_id + det'[c].fps * CLIP_SECONDS
                          /\ det'[c].active_clip[1].frames # <<>>
              /\ (FrameTick /\ Processed(c)) =>
                    (det'[c].active_clip # None
                        => det'[c].frame_id <= det'[c].active_clip[1].end)
              /\ (FrameTick /\ Processed(c) /\ ~state[c].active /\ ~RecordCreated(c)) =>
                    /\ state'[c] = state[c]
                    /\ \A i \in RecordsOf(c) : records'[i] = records[i]
                    /\ ~started
      ]_vars

\* the clip of an ignored trigger's window became ready while its camera was
\* idle: the detector's last trigger is later than the camera's last event,
\* and the clip is in no record and in no upload
C28_Witness ==
    \E c \in Cams :
        /\ ready # <<>>
        /\ ~state[c].active
        /\ state[c].last_event_time >= StartTime
        /\ det[c].global_last > state[c].last_event_time
        /\ det[c].global_last - state[c].last_event_time <= RECORD_COOLDOWN
        /\ det[c].active_clip = None
        /\ det[c].frame_id > det[CamOrder[2]].frame_id
        /\ ready[1].clip_path.t >= det[c].global_last
        /\ \A i \in 1..Len(records) : records[i].clip_path # Some(ready[1].clip_path)
        /\ \A u \in 1..Len(uploads) : uploads[u].clip_path # ready[1].clip_path

(* C29                                                                     *)
(* No record is handed to upload_clip_async twice, whether the upload is   *)
(* started by the normal finalization, by the safety net or by the finally *)
(* block: the uploads made so far are for distinct, existing records, and  *)
(* an upload once made stays in the list.  A record is updated to TRIMMED  *)
(* only from DETECTED, and only in a step that makes exactly one upload    *)
(* for it; every upload is made for a record that was DETECTED until then. *)
C29_OneTrimmedOneUpload ==
    /\ [](/\ \A i, j \in 1..Len(uploads) :
               i # j => uploads[i].accident_id # uploads[j].accident_id
          /\ \A i \in 1..Len(uploads) : uploads[i].accident_id \in 1..Len(records))
    /\ [][LET new == (Len(uploads) + 1)..Len(uploads')
          IN  /\ Len(uploads') >= Len(uploads)
              /\ \A u \in 1..Len(uploads) :
                    /\ uploads'[u].accident_id = uploads[u].accident_id
                    /\ uploads'[u].clip_path = uploads[u].clip_path
              /\ \A u \in new :
                    /\ uploads'[u].accident_id \in 1..Len(records)
                    /\ records[uploads'[u].accident_id].status = "DETECTED"
                    /\ records'[uploads'[u].accident_id].clip_path
                          = Some(uploads'[u].clip_path)
              /\ \A i \in 1..Len(records) :
                    (records[i].status = "DETECTED" /\ records'[i].status # "DETECTED")
                       => \/ records'[i].status = "FAILED"
                          \/ Cardinality({u \in new : uploads'[u].accident_id = i}) = 1
              /\ \A i \in 1..Len(records) :
                    (records'[i].status = "TRIMMED" /\ records[i].status # "TRIMMED")
                       => records[i].status = "DETECTED"
      ]_vars

\* one record was uploaded from the loop and another by the finally block
C29_Witness ==
    /\ pc = "done"
    /\ Len(uploads) >= 2
    /\ \E f \in 1..Len(finalized) :
          /\ finalized[f].ready # <<>>
          /\ state[finalized[f].cam].accident_id # 0
          /\ \E u \in 1..Len(uploads) :
                /\ uploads[u].accident_id = state[finalized[f].cam].accident_id
                /\ uploads[u].clip_path = finalized[f].ready[1].clip_path
    /\ \E u \in 1..Len(uploads) :
          \A c \in Cams : uploads[u].accident_id # state[c].accident_id

(* C30                                                                     *)
(* A record is created DETECTED and its status only moves forward: from    *)
(* DETECTED to TRIMMED or to FAILED, from TRIMMED to UPLOADED or to        *)
(* UPLOAD_FAILED.  The safety net, the clip dispatch, the finally block    *)
(* and the uploads never write a record that is FAILED, UPLOADED or        *)
(* UPLOAD_FAILED again, no record is removed, and no upload was ever made  *)
(* for a record that is FAILED.                                            *)
C30_StatusMovesForward ==
    /\ [](\A i \in 1..Len(records) :
             records[i].status = "FAILED"
                => \A u \in 1..Len(uploads) : uploads[u].accident_id # i)
    /\ [][/\ Len(records') >= Len(records)
          /\ \A i \in (Len(records) + 1)..Len(records') :
                records'[i].status = "DETECTED"
          /\ \A i \in 1..Len(records) :
                LET old == records[i].status
                    new == records'[i].status
                IN  /\ old \in {"FAILED", "UPLOADED", "UPLOAD_FAILED"}
                          => records'[i] = records[i]
                    /\ old = "DETECTED"
                          => new \in {"DETECTED", "TRIMMED", "FAILED",
                                      "UPLOADED", "UPLOAD_FAILED"}
                    /\ (old = "DETECTED" /\ new \in {"UPLOADED", "UPLOAD_FAILED"})
                          => (pc = "finally" /\ records'[i].clip_path # None)
                    /\ old = "TRIMMED"
                          => new \in {"TRIMMED", "UPLOADED", "UPLOAD_FAILED"}
      ]_vars

\* at the end of a session the table holds a FAILED record and a record
\* whose upload has finished
C30_Witness ==
    /\ pc = "done"
    /\ \E i, j \in 1..Len(records) :
          /\ records[i].status = "FAILED"
          /\ records[j].status \in {"UPLOADED", "UPLOAD_FAILED"}

(* C31                                                                     *)
(* Whenever the dispatch loop, the safety check or the finally block makes *)
(* a handle_clip call that hands a window to write_clip, the window was    *)
(* open before the step, the frames handed over all have sequence numbers  *)
(* inside [start, end] of that window and are at most 10 * fps + 1 many;   *)
(* when the call was not forced (the window closed because frame_id passed *)
(* its end) the frames are exactly the consecutive sequence numbers        *)
(* max(start, 1), ..., end.                                                *)
C31_WindowFramesHandedOver ==
    [][\A c \in Cams :
          (Called /\ last_call'.cam = c /\ last_call'.writes = 1)
          => /\ det[c].active_clip # None
             /\ wc'.called
             /\ LET win == det[c].active_clip[1]
                    frames == wc'.frames
                    first == IF win.start > 1 THEN win.start ELSE 1
                IN  /\ \A k \in 1..Len(frames) :
                          win.start <= frames[k] /\ frames[k] <= win.end
                    /\ Len(frames) <= 10 * det[c].fps + 1
                    /\ ~last_call'.final
                          => frames = [k \in 1..(win.end - first + 1) |->
                                          first + k - 1]
      ]_vars

\* a window of full length closed by sequence progression after the ring
\* buffer had started to push frames out
C31_Witness ==
    /\ last_call.op = "frame"
    /\ last_call.writes = 1
    /\ wc.called
    /\ Len(wc.frames) = 10 * det[last_call.cam].fps + 1
    /\ wc.frames[1] > 1
    /\ det[last_call.cam].frame_id
          > det[last_call.cam].fps * BUFFER_SECONDS

(* C32                                                                     *)
(* An iteration whose process_frame call fired a trigger ends with a       *)
(* window open that holds the trigger frame as its last frame; between two *)
(* iterations an open window is never empty; and every handle_clip call    *)
(* that closes a window, forced or not, in the loop or in the finally      *)
(* block, hands write_clip a frame list that is not empty.                 *)
C32_TriggerFrameCollected ==
    /\ [](pc = "loop"
            => \A c \in Cams :
                  det[c].active_clip # None
                     => det[c].active_clip[1].frames # <<>>)
    /\ [][\A c \in Cams :
            /\ (Called /\ last_call'.op = "frame" /\ last_call'.cam = c
                       /\ events' # <<>>)
               => /\ det'[c].active_clip # None
                  /\ LET frames == det'[c].active_clip[1].frames
                     IN  /\ frames # <<>>
                         /\ frames[Len(frames)] = det'[c].frame_id
            /\ (Called /\ last_call'.cam = c /\ last_call'.writes = 1)
               => /\ wc'.called
                  /\ wc'.frames # <<>>
      ]_vars

\* the safety check forced a window closed in the iteration whose frame had
\* opened it: the frames handed over end with the trigger frame
C32_Witness ==
    /\ pc = "loop"
    /\ last_call.op = "handle_clip"
    /\ last_call.final
    /\ last_call.writes = 1
    /\ events # <<>>
    /\ wc.called
    /\ wc.frames # <<>>
    /\ wc.frames[Len(wc.frames)] = det[last_call.cam].frame_id

=============================================================================
